---- MODULE Spec2Model ----
(***************************************************************************)
(* Verification model of the Mustache/JSON validation engine               *)
(* (amaankulshreshtha/mustache-json-validator).                            *)
(*                                                                         *)
(* A text is a sequence of one-character strings.  The validators scan it  *)
(* line by line with regular expressions; the regular expressions of the   *)
(* source are written here as sequences of nodes and run by a backtracking *)
(* matcher with the semantics of the JavaScript engine (leftmost match,    *)
(* greedy quantifiers, global `exec` loop driven by lastIndex).            *)
(*                                                                         *)
(* Three specifications share the variables:                               *)
(*   Spec        the section pass  (parseTemplate, validateSectionMatching) *)
(*   SpecSyntax  the Mustache syntax pass (MustacheSyntaxValidator)        *)
(*   SpecJSON    the JSON passes   (JSONSyntaxValidator, JSONValidator)    *)
(***************************************************************************)
EXTENDS Integers, Sequences, FiniteSets, TLC

VARIABLES
  text,          \* the document text handed to the validator
  pc,            \* position of the validation run
  sections,      \* MustacheSection[] built by parseTemplate
  idx,           \* loop index of the running pass (1-based)
  sectionStack,  \* SectionStack[] of validateSectionMatching
  errors,        \* ValidationError[] collected so far
  config,        \* ExtensionConfig as configManager.getConfig() returns it
  output,        \* renderResult.output of templateEngine.renderTemplate
  diagnostics,   \* the defects published for the document
  returned,      \* the value returned to the caller of the validator
  clock,         \* Date.now(), in milliseconds since the call
  timer,         \* the timer of createTimeoutPromise
  microtasks,    \* the microtask queue of the event loop
  unclosedTagLastIndex,  \* MUSTACHE_PATTERNS.UNCLOSED_TAG.lastIndex
  renderCache,   \* TemplateEngine.renderCache
  documents,     \* vscode.workspace.textDocuments: per URI, open or not and the text
  validationTimers,  \* the map validationTimers of extension.ts
  timeouts,      \* the setTimeout callbacks waiting in the event loop
  validations,   \* the calls of validateDocument that have not returned yet
  published,     \* the diagnosticsCollection: per URI, the defects published
  activeTextEditor  \* URI of vscode.window.activeTextEditor's document, "" if none

vars == <<text, pc, sections, idx, sectionStack, errors, config, output, diagnostics,
          returned, clock, timer, microtasks, unclosedTagLastIndex, renderCache,
          documents, validationTimers, timeouts, validations, published,
                 activeTextEditor>>

(* The state of the extension host that outlives a validation: the shared  *)
(* regex objects of the module constants, the render cache, the open       *)
(* documents with their timers, running validations and diagnostics.       *)
extensionHost == <<unclosedTagLastIndex, renderCache, documents, validationTimers,
                   timeouts, validations, published,
                 activeTextEditor>>

Uris == {"d1", "d2"}

ExtensionHostIdle ==
  /\ unclosedTagLastIndex = 0
  /\ renderCache = {}
  /\ documents = [uri \in Uris |-> [open |-> FALSE, version |-> 0, text |-> <<>>]]
  /\ validationTimers = [uri \in Uris |-> <<>>]
  /\ timeouts = {}
  /\ validations = {}
  /\ published = [uri \in Uris |-> <<>>]
  /\ activeTextEditor = ""

(* The event loop the asynchronous validators run on. *)
eventLoop == <<clock, timer, microtasks>>

NoTimer == [state |-> "none", due |-> 0]

EventLoopIdle ==
  /\ clock = 0
  /\ timer = NoTimer
  /\ microtasks = <<>>

(* The editor side of the extension and the event loop, which the passes   *)
(* of the validators leave alone.                                          *)
editor == <<config, output, diagnostics, returned, eventLoop, extensionHost>>

(* The extension before a validation run of the document: the default      *)
(* configuration, nothing rendered, nothing published.                     *)
EditorIdle ==
  /\ config = [showWarnings |-> TRUE, showHints |-> TRUE, validateJsonOutput |-> TRUE]
  /\ output = <<>>
  /\ diagnostics = <<>>
  /\ returned = <<>>
  /\ EventLoopIdle
  /\ ExtensionHostIdle

(***************************************************************************)
(* Bounds of the model.                                                    *)
(***************************************************************************)
MaxPieces == 5        \* a text is built from at most this many pieces

(***************************************************************************)
(* Characters and character classes.                                       *)
(***************************************************************************)
NL == "\n"
LowerLetters == {"a","b","c","d","e","f","g","h","i","j","k","l","m",
                 "n","o","p","q","r","s","t","u","v","w","x","y","z"}
UpperLetters == {"A","B","C","D","E","F","G","H","I","J","K","L","M",
                 "N","O","P","Q","R","S","T","U","V","W","X","Y","Z"}
Digits == {"0","1","2","3","4","5","6","7","8","9"}
Whitespace == {" ", "\t", "\r", "\n", "\f"}                  \* \s
WordChars == LowerLetters \cup UpperLetters \cup Digits \cup {"_"}   \* \w
IdStart == LowerLetters \cup UpperLetters \cup {"_"}         \* [a-zA-Z_]
IdChars == WordChars \cup {".", "-"}                         \* [a-zA-Z0-9_.\-]

(***************************************************************************)
(* Regular expressions.  A pattern is a sequence of nodes.                 *)
(***************************************************************************)
In(S)       == [k |-> "in", s |-> S]          \* [...]
NotIn(S)    == [k |-> "notin", s |-> S]       \* [^...]
Lit(c)      == [k |-> "in", s |-> {c}]
AnyChar     == [k |-> "notin", s |-> {NL, "\r"}]   \* .
Star(r)     == [k |-> "star", r |-> r]        \* (r)*   greedy
LazyStar(r) == [k |-> "lazy", r |-> r]        \* (r)*?
Opt(r)      == [k |-> "opt", r |-> r]         \* (r)?
NegAhead(r) == [k |-> "nla", r |-> r]         \* (?!r)
WordB       == [k |-> "wb"]                   \* \b
Eol         == [k |-> "eol"]                  \* $
CapS        == [k |-> "cs"]                   \* open of capture group 1
CapE        == [k |-> "ce"]                   \* close of capture group 1

NoMatch == [ok |-> FALSE, e |-> -1, cs |-> -1, ce |-> -1]

(* M(rs, line, i, cap): match the node sequence rs against line starting   *)
(* at the 0-based offset i, backtracking in the engine's priority order.   *)
RECURSIVE M(_, _, _, _)
M(rs, line, i, cap) ==
  IF Len(rs) = 0
  THEN [ok |-> TRUE, e |-> i, cs |-> cap[1], ce |-> cap[2]]
  ELSE
    LET r == Head(rs)
        K == Tail(rs)
        n == Len(line)
    IN CASE r.k = "in"    -> IF i < n /\ line[i + 1] \in r.s
                             THEN M(K, line, i + 1, cap) ELSE NoMatch
         [] r.k = "notin" -> IF i < n /\ line[i + 1] \notin r.s
                             THEN M(K, line, i + 1, cap) ELSE NoMatch
         [] r.k = "star"  -> LET a == M(r.r \o rs, line, i, cap)
                             IN IF a.ok THEN a ELSE M(K, line, i, cap)
         [] r.k = "lazy"  -> LET a == M(K, line, i, cap)
                             IN IF a.ok THEN a ELSE M(r.r \o rs, line, i, cap)
         [] r.k = "opt"   -> LET a == M(r.r \o K, line, i, cap)
                             IN IF a.ok THEN a ELSE M(K, line, i, cap)
         [] r.k = "nla"   -> IF M(r.r, line, i, cap).ok
                             THEN NoMatch ELSE M(K, line, i, cap)
         [] r.k = "wb"    -> LET before == i > 0 /\ line[i] \in WordChars
                                 after  == i < n /\ line[i + 1] \in WordChars
                             IN IF before # after
                                THEN M(K, line, i, cap) ELSE NoMatch
         [] r.k = "eol"   -> IF i = n THEN M(K, line, i, cap) ELSE NoMatch
         [] r.k = "cs"    -> M(K, line, i, <<i, cap[2]>>)
         [] r.k = "ce"    -> M(K, line, i, <<cap[1], i>>)

(* The `while ((match = re.exec(line)) !== null)` loop of a global regex:  *)
(* the matches of re in line from lastIndex on, each with its index, its   *)
(* end and the bounds of capture group 1 (all 0-based offsets).            *)
RECURSIVE ExecAll(_, _, _)
ExecAll(re, line, lastIndex) ==
  IF lastIndex > Len(line) THEN <<>>
  ELSE LET m == M(re, line, lastIndex, <<-1, -1>>)
       IN IF m.ok
          THEN <<[index |-> lastIndex, e |-> m.e, cs |-> m.cs, ce |-> m.ce]>>
               \o ExecAll(re, line, IF m.e = lastIndex THEN lastIndex + 1 ELSE m.e)
          ELSE ExecAll(re, line, lastIndex + 1)

(* line.match(re) / re.test(line) of a regex without the g flag: the first *)
(* match, as a sequence of zero or one element.                            *)
RECURSIVE ExecFirst(_, _, _)
ExecFirst(re, line, from) ==
  IF from > Len(line) THEN <<>>
  ELSE LET m == M(re, line, from, <<-1, -1>>)
       IN IF m.ok
          THEN <<[index |-> from, e |-> m.e, cs |-> m.cs, ce |-> m.ce]>>
          ELSE ExecFirst(re, line, from + 1)

(***************************************************************************)
(* Strings.                                                                *)
(***************************************************************************)
RECURSIVE Flatten(_)
Flatten(ss) == IF Len(ss) = 0 THEN <<>> ELSE Head(ss) \o Flatten(Tail(ss))

(* text.split("\n") *)
RECURSIVE split(_)
split(t) ==
  IF \A i \in 1..Len(t) : t[i] # NL THEN <<t>>
  ELSE LET p == CHOOSE i \in 1..Len(t) : t[i] = NL /\ \A j \in 1..(i - 1) : t[j] # NL
       IN <<SubSeq(t, 1, p - 1)>> \o split(SubSeq(t, p + 1, Len(t)))

(* s.substring(from, to) with 0-based offsets *)
substring(s, from, to) ==
  LET lo == IF from < to THEN from ELSE to
      hi == IF from < to THEN to ELSE from
  IN SubSeq(s, lo + 1, IF hi < Len(s) THEN hi ELSE Len(s))

(***************************************************************************)
(* MUSTACHE_PATTERNS (core/constants).                                     *)
(***************************************************************************)
WS0 == Star(<<In(Whitespace)>>)                               \* \s*
TagName == <<CapS, In(IdStart), Star(<<In(IdChars)>>), CapE>> \* ([a-zA-Z_][a-zA-Z0-9_.\-]*)

SECTION_START    == <<Lit("{"), Lit("{"), WS0, Lit("#"), WS0>> \o TagName \o <<WS0, Lit("}"), Lit("}")>>
SECTION_END      == <<Lit("{"), Lit("{"), WS0, Lit("/"), WS0>> \o TagName \o <<WS0, Lit("}"), Lit("}")>>
INVERTED_SECTION == <<Lit("{"), Lit("{"), WS0, Lit("^"), WS0>> \o TagName \o <<WS0, Lit("}"), Lit("}")>>
UNCLOSED_TAG     == <<Lit("{"), Lit("{"),
                      NegAhead(<<Star(<<NotIn({"}"})>>), Lit("}"), Lit("}")>>)>>

(***************************************************************************)
(* ValidationError records.  A message is a tuple: its fixed wording       *)
(* followed by the values interpolated into it.                            *)
(***************************************************************************)
createValidationError(message, line, column, severity, length, code) ==
  [message |-> message, line |-> line, column |-> column,
   severity |-> severity, length |-> length, code |-> code]

MISMATCHED_SECTION == "M003"

(***************************************************************************)
(* MustacheValidator.extractSections / parseTemplate.                      *)
(***************************************************************************)
SectionsOf(ms, line, lineNumber, type) ==
  [k \in 1..Len(ms) |->
     [name        |-> substring(line, ms[k].cs, ms[k].ce),
      type        |-> type,
      startLine   |-> lineNumber,
      startColumn |-> ms[k].index,
      length      |-> ms[k].e - ms[k].index]]

extractSections(line, lineNumber) ==
     SectionsOf(ExecAll(SECTION_START, line, 0), line, lineNumber, "normal")
  \o SectionsOf(ExecAll(INVERTED_SECTION, line, 0), line, lineNumber, "inverted")
  \o SectionsOf(ExecAll(SECTION_END, line, 0), line, lineNumber, "closing")

parseTemplate(t) ==
  LET lines == split(t)
  IN Flatten([lineIndex \in 1..Len(lines) |-> extractSections(lines[lineIndex], lineIndex)])

(***************************************************************************)
(* MustacheSectionValidator.validateSectionMatching.                       *)
(*   A state of the pass is [stack, errors]; matchSection is the body of   *)
(*   its for loop, unclosedSections the loop after it.                     *)
(***************************************************************************)
IsOpening(section) == section.type = "normal" \/ section.type = "inverted"
IsClosing(section) == section.type = "closing"

pushSection(stack, section) ==
  Append(stack, [section |-> section, depth |-> Len(stack)])

(* Mutant of popSection: the closer removes the nearest frame of its own   *)
(* name (a search down the stack), the top frame when there is none.       *)
popSectionByName(stack, section) ==
  IF Len(stack) = 0 THEN stack
  ELSE IF \E i \in 1..Len(stack) : stack[i].section.name = section.name
       THEN LET i == CHOOSE i \in 1..Len(stack) :
                       /\ stack[i].section.name = section.name
                       /\ \A j \in (i + 1)..Len(stack) : stack[j].section.name # section.name
            IN SubSeq(stack, 1, i - 1) \o SubSeq(stack, i + 1, Len(stack))
       ELSE SubSeq(stack, 1, Len(stack) - 1)

(* sectionStack.pop() of the closing branch: the top frame goes, whatever   *)
(* the closer's name.                                                      *)
popSection(stack, section) ==
  IF Len(stack) = 0 THEN stack ELSE SubSeq(stack, 1, Len(stack) - 1)

unexpectedClosing(section) ==
  <<createValidationError(<<"Unexpected closing section", section.name>>,
      section.startLine, section.startColumn, "error", section.length, MISMATCHED_SECTION)>>

(* Mutant of mismatchedSection: the companion Info is not emitted. *)
mismatchedSectionErrorOnly(lastSection, section) ==
  <<createValidationError(
      <<"Mismatched section: expected/found", lastSection.section.name, section.name>>,
      section.startLine, section.startColumn, "error", section.length, "M003")>>

mismatchedSection(lastSection, section) ==
  <<createValidationError(
      <<"Mismatched section: expected/found", lastSection.section.name, section.name>>,
      section.startLine, section.startColumn, "error", section.length, MISMATCHED_SECTION),
    createValidationError(
      <<"Opening section defined here", lastSection.section.name>>,
      lastSection.section.startLine, lastSection.section.startColumn, "info",
      lastSection.section.length, MISMATCHED_SECTION)>>

(* Mutant of closeSection: the frame is compared with the closer itself,   *)
(* not by name, so every closer on a non-empty stack is a mismatch.        *)
closeSectionByIdentity(stack, section) ==
  IF Len(stack) = 0 THEN unexpectedClosing(section)
  ELSE IF stack[Len(stack)].section # section
       THEN mismatchedSection(stack[Len(stack)], section)
       ELSE <<>>

(* Mutant of closeSection: a closer on an empty stack is skipped silently. *)
closeSectionSilentOnEmpty(stack, section) ==
  IF Len(stack) = 0 THEN <<>>
  ELSE IF stack[Len(stack)].section.name # section.name
       THEN mismatchedSection(stack[Len(stack)], section)
       ELSE <<>>

closeSection(stack, section) ==
  IF Len(stack) = 0 THEN unexpectedClosing(section)
  ELSE IF stack[Len(stack)].section.name # section.name
       THEN mismatchedSection(stack[Len(stack)], section)
       ELSE <<>>

matchSection(st, section) ==
  IF IsOpening(section)
  THEN [stack |-> pushSection(st.stack, section), errors |-> st.errors]
  ELSE IF IsClosing(section)
       THEN [stack  |-> popSection(st.stack, section),
             errors |-> st.errors \o closeSection(st.stack, section)]
       ELSE st

(* Mutant of unclosedSections: the stack is emptied from the top. *)
unclosedSectionsTopFirst(stack) ==
  [k \in 1..Len(stack) |->
     LET f == stack[Len(stack) + 1 - k]
     IN createValidationError(<<"Unclosed section", f.section.name>>,
          f.section.startLine, f.section.startColumn, "error",
          f.section.length, "M003")]

unclosedSections(stack) ==
  [k \in 1..Len(stack) |->
     createValidationError(<<"Unclosed section", stack[k].section.name>>,
       stack[k].section.startLine, stack[k].section.startColumn, "error",
       stack[k].section.length, MISMATCHED_SECTION)]

RECURSIVE matchAll(_, _)
matchAll(st, secs) ==
  IF Len(secs) = 0 THEN st ELSE matchAll(matchSection(st, Head(secs)), Tail(secs))

validateSectionMatching(secs) ==
  LET st == matchAll([stack |-> <<>>, errors |-> <<>>], secs)
  IN st.errors \o unclosedSections(st.stack)

(***************************************************************************)
(* Texts of the section pass: section tags of two names and line breaks.   *)
(***************************************************************************)
SectionPieces ==
  { <<"{","{","#","a","}","}">>, <<"{","{","#","b","}","}">>,
    <<"{","{","^","a","}","}">>,
    <<"{","{","/","a","}","}">>, <<"{","{","/","b","}","}">>,
    <<NL>> }

RECURSIVE TextsOf(_, _)
TextsOf(pieces, n) ==
  IF n = 0 THEN {<<>>}
  ELSE LET shorter == TextsOf(pieces, n - 1)
       IN shorter \cup {t \o p : t \in shorter, p \in pieces}

(***************************************************************************)
(* The section pass as a state machine.                                    *)
(***************************************************************************)
Init ==
  /\ text \in TextsOf(SectionPieces, MaxPieces)
  /\ pc = "parse"
  /\ sections = <<>>
  /\ idx = 1
  /\ sectionStack = <<>>
  /\ errors = <<>>
  /\ EditorIdle

ParseTemplate ==
  /\ pc = "parse"
  /\ sections' = parseTemplate(text)
  /\ pc' = "matching"
  /\ idx' = 1
  /\ UNCHANGED <<editor, text, sectionStack, errors>>

MatchStep(cond) ==
  /\ pc = "matching"
  /\ idx <= Len(sections)
  /\ cond
  /\ LET st == matchSection([stack |-> sectionStack, errors |-> errors], sections[idx])
     IN /\ sectionStack' = st.stack
        /\ errors' = st.errors
  /\ idx' = idx + 1
  /\ UNCHANGED <<editor, text, pc, sections>>

MatchOpening == MatchStep(IsOpening(sections[idx]))

MatchClosing == MatchStep(IsClosing(sections[idx]))

MatchUnclosed ==
  /\ pc = "matching"
  /\ idx > Len(sections)
  /\ errors' = errors \o unclosedSections(sectionStack)
  /\ pc' = "matched"
  /\ UNCHANGED <<editor, text, sections, idx, sectionStack>>

Next ==
  \/ ParseTemplate
  \/ MatchOpening
  \/ MatchClosing
  \/ MatchUnclosed

Spec == Init /\ [][Next]_vars

(***************************************************************************)
(* Helpers of the properties.                                              *)
(***************************************************************************)
Shape(secs) == [k \in 1..Len(secs) |-> <<secs[k].type, secs[k].name>>]
Opening(n) == <<"normal", <<n>>>>
Closing(n) == <<"closing", <<n>>>>

RemoveAt(s, k) == SubSeq(s, 1, k - 1) \o SubSeq(s, k + 1, Len(s))
InsertAt(s, k, x) == SubSeq(s, 1, k - 1) \o <<x>> \o SubSeq(s, k, Len(s))

At(e, line, column) == e.line = line /\ e.column = column
IsUnclosedSection(e) == e.message[1] = "Unclosed section"

Openers(secs, from, to) == Cardinality({j \in from..to : IsOpening(secs[j])})
Closers(secs, from, to) == Cardinality({j \in from..to : IsClosing(secs[j])})

(* Number of blocks open after secs, counted without a stack: a closer     *)
(* with nothing open is ignored.                                           *)
RECURSIVE OpenCount(_, _)
OpenCount(secs, n) ==
  IF n = 0 THEN 0
  ELSE LET d == OpenCount(secs, n - 1)
       IN IF IsOpening(secs[n]) THEN d + 1
          ELSE IF IsClosing(secs[n]) /\ d > 0 THEN d - 1 ELSE d

(* The closer at k is stray: nothing is open when it is scanned. *)
StrayCloser(secs, k) == IsClosing(secs[k]) /\ OpenCount(secs, k - 1) = 0

(* The opener at i is never closed: after it, closers never outnumber      *)
(* openers.                                                                *)
NeverClosed(secs, i) ==
  /\ IsOpening(secs[i])
  /\ \A j \in (i + 1)..Len(secs) : Closers(secs, i + 1, j) <= Openers(secs, i + 1, j)

Matched == pc = "matched"

(* A well-formed token sequence: every closer closes the most recently     *)
(* opened block that is still open and has its name; no block stays open.  *)
RECURSIVE WellFormedFrom(_, _)
WellFormedFrom(secs, open) ==
  IF Len(secs) = 0 THEN Len(open) = 0
  ELSE LET s == Head(secs)
       IN IF IsOpening(s) THEN WellFormedFrom(Tail(secs), Append(open, s.name))
          ELSE /\ Len(open) > 0
               /\ open[Len(open)] = s.name
               /\ WellFormedFrom(Tail(secs), SubSeq(open, 1, Len(open) - 1))
WellFormed(secs) == WellFormedFrom(secs, <<>>)

(***************************************************************************)
(* C1: for every well-formed sequence of section tokens the matching pass  *)
(* emits no defect.                                                        *)
(***************************************************************************)
C1_WellFormedNoDefect ==
  (Matched /\ WellFormed(sections)) => errors = <<>>

C1_Witness ==
  /\ Matched
  /\ WellFormed(sections)
  /\ Len(sections) = 4
  /\ IsOpening(sections[2])
  /\ sections[1].name # sections[2].name

(***************************************************************************)
(* C2: a closer scanned on a non-empty stack whose top frame has another   *)
(* name adds exactly two defects, an Error at the closer and an Info at    *)
(* the popped opener; for  open a, close b  these are all the defects.     *)
(***************************************************************************)
MismatchAt(k) ==
  /\ pc = "matching"
  /\ k <= Len(sections)
  /\ IsClosing(sections[k])
  /\ Len(sectionStack) > 0
  /\ sectionStack[Len(sectionStack)].section.name # sections[k].name

ErrorAndInfo(es, closer, opener) ==
  /\ Len(es) = 2
  /\ es[1].severity = "error"
  /\ At(es[1], closer.startLine, closer.startColumn)
  /\ es[2].severity = "info"
  /\ At(es[2], opener.startLine, opener.startColumn)

C2_MismatchErrorAndInfo ==
  /\ [][MismatchAt(idx) =>
          /\ Len(errors') = Len(errors) + 2
          /\ SubSeq(errors', 1, Len(errors)) = errors
          /\ ErrorAndInfo(SubSeq(errors', Len(errors) + 1, Len(errors) + 2),
                          sections[idx], sectionStack[Len(sectionStack)].section)]_vars
  /\ []((Matched /\ Shape(sections) = <<Opening("a"), Closing("b")>>)
          => ErrorAndInfo(errors, sections[2], sections[1]))

C2_Witness ==
  /\ Matched
  /\ Shape(sections) = <<Opening("a"), Closing("b")>>
  /\ Len(errors) = 2

(***************************************************************************)
(* C3: the section tokens built by parseTemplate are in document order: a  *)
(* tag with the smaller (line, column) comes earlier in the sequence.      *)
(***************************************************************************)
Before(s1, s2) ==
  \/ s1.startLine < s2.startLine
  \/ s1.startLine = s2.startLine /\ s1.startColumn < s2.startColumn

C3_DocumentOrder ==
  pc # "parse" =>
    \A i \in 1..Len(sections) : \A j \in (i + 1)..Len(sections) :
      Before(sections[i], sections[j])

(***************************************************************************)
(* C4: a closer is matched against the top frame only: it pops exactly the *)
(* top frame, matching name or not; for  open a, open b, close a, close b  *)
(* the pass reports two mismatches and no unclosed section.                *)
(***************************************************************************)
C4_TopOfStackOnly ==
  /\ [][(pc = "matching" /\ idx <= Len(sections) /\ IsClosing(sections[idx])
          /\ Len(sectionStack) > 0)
          => sectionStack' = SubSeq(sectionStack, 1, Len(sectionStack) - 1)]_vars
  /\ []((Matched /\ Shape(sections) = <<Opening("a"), Opening("b"), Closing("a"), Closing("b")>>)
          => /\ Len(errors) = 4
             /\ ErrorAndInfo(SubSeq(errors, 1, 2), sections[3], sections[2])
             /\ ErrorAndInfo(SubSeq(errors, 3, 4), sections[4], sections[1])
             /\ \A k \in 1..Len(errors) : ~IsUnclosedSection(errors[k]))

C4_Witness ==
  /\ Matched
  /\ Shape(sections) = <<Opening("a"), Opening("b"), Closing("a"), Closing("b")>>
  /\ Len(errors) = 4

(***************************************************************************)
(* C5: at the end of the tokens the pass emits one Unclosed Error for each *)
(* frame left on the stack, at its opener, bottom of the stack first, and  *)
(* none for an opener that a closer popped.                                *)
(***************************************************************************)
NeverClosedSections(secs) ==
  LET keep(k) == NeverClosed(secs, k)
      F[n \in 0..Len(secs)] ==
        IF n = 0 THEN <<>>
        ELSE IF keep(n) THEN Append(F[n - 1], secs[n]) ELSE F[n - 1]
  IN F[Len(secs)]

C5_UnclosedPerFrame ==
  Matched =>
    LET n == Len(sectionStack)
        m == Len(errors)
        left == NeverClosedSections(sections)
    IN /\ n <= m
       /\ [k \in 1..n |-> sectionStack[k].section] = left
       /\ \A k \in 1..n :
            /\ IsUnclosedSection(errors[m - n + k])
            /\ errors[m - n + k].severity = "error"
            /\ At(errors[m - n + k], left[k].startLine, left[k].startColumn)
       /\ \A k \in 1..(m - n) : ~IsUnclosedSection(errors[k])

C5_Witness ==
  /\ Matched
  /\ Len(sectionStack) = 2
  /\ \E k \in 1..Len(sections) : IsClosing(sections[k]) /\ ~StrayCloser(sections, k)
  /\ Cardinality({k \in 1..Len(errors) : IsUnclosedSection(errors[k])}) = 2

(***************************************************************************)
(* C6: a closer scanned on an empty stack yields one 'Unexpected closing   *)
(* section' Error at the closer, leaves the stack empty, and the scan goes *)
(* on: the other tokens are matched as if the stray closer were absent.    *)
(***************************************************************************)
IsUnexpectedClosing(e, closer) ==
  /\ e.message[1] = "Unexpected closing section"
  /\ e.severity = "error"
  /\ At(e, closer.startLine, closer.startColumn)

C6_StrayCloser ==
  /\ [][(pc = "matching" /\ idx <= Len(sections) /\ IsClosing(sections[idx])
          /\ Len(sectionStack) = 0)
          => /\ Len(errors') = Len(errors) + 1
             /\ SubSeq(errors', 1, Len(errors)) = errors
             /\ IsUnexpectedClosing(errors'[Len(errors')], sections[idx])
             /\ sectionStack' = <<>>
             /\ pc' = "matching"
             /\ idx' = idx + 1]_vars
  /\ [](Matched =>
          \A k \in 1..Len(sections) :
            StrayCloser(sections, k) =>
              LET p == Len(validateSectionMatching(SubSeq(sections, 1, k - 1))) + 1
              IN /\ p <= Len(errors)
                 /\ IsUnexpectedClosing(errors[p], sections[k])
                 /\ RemoveAt(errors, p) = validateSectionMatching(RemoveAt(sections, k)))

C6_Witness ==
  /\ Matched
  /\ Len(sections) = 3
  /\ StrayCloser(sections, 1)
  /\ Shape(SubSeq(sections, 2, Len(sections))) = <<Opening("a"), Closing("b")>>
  /\ Len(errors) = 3

(***************************************************************************)
(* BaseValidator.sortErrors: Array.prototype.sort by (line, column); the   *)
(* sort is stable, so errors at one position keep their order.             *)
(***************************************************************************)
ErrorBefore(a, b) == a.line < b.line \/ (a.line = b.line /\ a.column < b.column)

RECURSIVE InsertSorted(_, _)
InsertSorted(sorted, e) ==
  IF Len(sorted) = 0 THEN <<e>>
  ELSE IF ErrorBefore(e, sorted[Len(sorted)])
       THEN Append(InsertSorted(SubSeq(sorted, 1, Len(sorted) - 1), e), sorted[Len(sorted)])
       ELSE Append(sorted, e)

RECURSIVE sortErrorsFrom(_, _)
sortErrorsFrom(sorted, es) ==
  IF Len(es) = 0 THEN sorted
  ELSE sortErrorsFrom(InsertSorted(sorted, Head(es)), Tail(es))

sortErrors(es) == sortErrorsFrom(<<>>, es)

(***************************************************************************)
(* MustacheSyntaxValidator.                                                *)
(***************************************************************************)
MUSTACHE_SYNTAX_ERROR == "M001"
UNCLOSED_TAG_CODE == "M002"
INVALID_TAG_NAME == "M004"
NESTED_SECTIONS == "M006"
NoLength == -1            \* length: undefined

LB == Lit("{")
RB == Lit("}")
NotRB0 == Star(<<NotIn({"}"})>>)       \* [^}]*

(* The errors of one pattern on one line: one per match of the exec loop. *)
PatternErrors(re, message, line, lineNumber, code) ==
  LET ms == ExecAll(re, line, 0)
  IN [k \in 1..Len(ms) |->
        createValidationError(<<message>>, lineNumber, ms[k].index, "error",
                              ms[k].e - ms[k].index, code)]

(* for (let i = 0; i < lines.length; i++): the line numbers of the text *)
LineNumbers(t) == 1..Len(split(t))

UnclosedTagErrors(line, lineNumber) ==
  LET ms == ExecAll(UNCLOSED_TAG, line, 0)
  IN [k \in 1..Len(ms) |->
        createValidationError(<<"Unclosed Mustache tag - missing closing }}">>,
                              lineNumber, ms[k].index, "error", 2, UNCLOSED_TAG_CODE)]

checkUnclosedTags(t) == Flatten([i \in LineNumbers(t) |-> UnclosedTagErrors(split(t)[i], i)])

(* line.indexOf("}", from): 0-based offset, -1 when absent *)
indexOf(line, c, from) ==
  IF \E j \in (from + 1)..Len(line) : line[j] = c
  THEN (CHOOSE j \in (from + 1)..Len(line) :
          line[j] = c /\ \A h \in (from + 1)..(j - 1) : line[h] # c) - 1
  ELSE -1

(* line[i] of JavaScript: undefined (here "") past the end *)
charAt(line, i) == IF i >= 0 /\ i < Len(line) THEN line[i + 1] ELSE ""

RECURSIVE checkSingleBracesFrom(_, _, _)
checkSingleBracesFrom(line, lineNumber, i) ==
  IF i >= Len(line) THEN <<>>
  ELSE LET closingIndex == indexOf(line, "}", i)
           here == IF /\ charAt(line, i) = "{"
                      /\ charAt(line, i + 1) # "{"
                      /\ closingIndex # -1
                      /\ charAt(line, closingIndex + 1) # "}"
                   THEN <<createValidationError(<<"Single braces should be double braces">>,
                            lineNumber, i, "error", closingIndex + 1 - i,
                            MUSTACHE_SYNTAX_ERROR)>>
                   ELSE <<>>
       IN here \o checkSingleBracesFrom(line, lineNumber, i + 1)

checkSingleBraces(line, lineNumber) == checkSingleBracesFrom(line, lineNumber, 0)

TooManyOpening == <<LB, LB, LB, LB, Star(<<LB>>)>>               \* \{{4,}
TooManyClosing == <<RB, RB, RB, RB, Star(<<RB>>)>>               \* \}{4,}
TripleOpenDoubleClose == <<LB, LB, LB, NotRB0, RB, RB>>          \* \{\{\{[^}]*\}\}
DoubleOpenTripleClose == <<LB, LB, NotRB0, RB, RB, RB>>          \* \{\{[^}]*\}\}\}
EmptyTag == <<LB, LB, WS0, RB, RB>>                              \* \{\{\s*\}\}

MalformedTagErrors(line, lineNumber) ==
     checkSingleBraces(line, lineNumber)
  \o PatternErrors(TooManyOpening, "Too many opening braces", line, lineNumber, MUSTACHE_SYNTAX_ERROR)
  \o PatternErrors(TooManyClosing, "Too many closing braces", line, lineNumber, MUSTACHE_SYNTAX_ERROR)
  \o PatternErrors(TripleOpenDoubleClose, "Mismatched braces - triple braces need triple closing",
                   line, lineNumber, MUSTACHE_SYNTAX_ERROR)
  \o PatternErrors(DoubleOpenTripleClose, "Mismatched braces - double braces need double closing",
                   line, lineNumber, MUSTACHE_SYNTAX_ERROR)
  \o PatternErrors(EmptyTag, "Empty Mustache tag", line, lineNumber, MUSTACHE_SYNTAX_ERROR)

checkMalformedTags(t) == Flatten([i \in LineNumbers(t) |-> MalformedTagErrors(split(t)[i], i)])

SectionSigil  == In({"#", "^", "/"})                              \* [#^/]
AnySigil      == In({"#", "^", "/", "&"})                         \* [#^/&]
MissingName   == <<LB, LB, WS0, SectionSigil, WS0, RB, RB>>
StartsWithDigit == <<LB, LB, WS0, Opt(<<SectionSigil>>), WS0, In(Digits), NotRB0, RB, RB>>
InvalidChars  == <<LB, LB, WS0, Opt(<<AnySigil>>), WS0, In(IdStart),
                   Star(<<NotIn({"}"} \cup Whitespace)>>),
                   NotIn(WordChars \cup {".", "-"}), NotRB0, RB, RB>>
InnerWhitespace == <<LB, LB, WS0, Opt(<<AnySigil>>), WS0, In(IdStart), NotRB0,
                     In(Whitespace), Star(<<In(Whitespace)>>), NotRB0, RB, RB>>

(* match[0].includes(needle) *)
includes(s, needle) ==
  \E i \in 0..(Len(s) - Len(needle)) : SubSeq(s, i + 1, i + Len(needle)) = needle

IsCommentMatch(line, m) ==
  LET m0 == substring(line, m.index, m.e)
  IN includes(m0, <<"{", "{", "!">>) \/ includes(m0, <<"{", "{", " ", "!">>)

TagNamePatternErrors(re, message, line, lineNumber) ==
  LET ms == ExecAll(re, line, 0)
      keep == SelectSeq(ms, LAMBDA m : ~IsCommentMatch(line, m))
  IN [k \in 1..Len(keep) |->
        createValidationError(<<message>>, lineNumber, keep[k].index, "error",
                              keep[k].e - keep[k].index, INVALID_TAG_NAME)]

InvalidTagNameErrors(line, lineNumber) ==
     TagNamePatternErrors(MissingName, "Section tag missing name", line, lineNumber)
  \o TagNamePatternErrors(StartsWithDigit, "Tag names cannot start with numbers", line, lineNumber)
  \o TagNamePatternErrors(InvalidChars, "Invalid characters in tag name", line, lineNumber)
  \o TagNamePatternErrors(InnerWhitespace, "Tag names cannot contain whitespace", line, lineNumber)

checkInvalidTagNames(t) == Flatten([i \in LineNumbers(t) |-> InvalidTagNameErrors(split(t)[i], i)])

NestedPattern == <<LB, LB, NotRB0, LB, LB>>                      \* \{\{[^}]*\{\{

NestedTagErrors(line, lineNumber) ==
  PatternErrors(NestedPattern, "Nested Mustache tags are not allowed", line, lineNumber,
                NESTED_SECTIONS)

checkNestedTags(t) == Flatten([i \in LineNumbers(t) |-> NestedTagErrors(split(t)[i], i)])

(* (text.match(/\{\{/g) || []).length against (text.match(/\}\}/g) || []).length *)
checkUnbalancedBraces(t) ==
  LET openingBraces == Len(ExecAll(<<LB, LB>>, t, 0))
      closingBraces == Len(ExecAll(<<RB, RB>>, t, 0))
      difference == IF openingBraces > closingBraces
                    THEN openingBraces - closingBraces ELSE closingBraces - openingBraces
      missingType == IF openingBraces > closingBraces THEN "closing" ELSE "opening"
  IN IF openingBraces # closingBraces
     THEN <<createValidationError(<<"Unbalanced braces", difference, missingType>>,
              1, 0, "error", NoLength, MUSTACHE_SYNTAX_ERROR)>>
     ELSE <<>>

(***************************************************************************)
(* Texts of the syntax pass: brace runs, a name character, line breaks.    *)
(***************************************************************************)
MaxSyntaxPieces == 4

SyntaxPieces ==
  { <<"{","{">>, <<"}","}">>, <<"{","{","{">>, <<"}","}","}">>,
    <<"a">>, <<" ">>, <<NL>> }

(***************************************************************************)
(* MustacheSyntaxValidator.validateSync as a state machine: one step per   *)
(* check, then the sort.                                                   *)
(***************************************************************************)
InitSyntax ==
  /\ text \in TextsOf(SyntaxPieces, MaxSyntaxPieces)
  /\ pc = "checkUnclosedTags"
  /\ sections = <<>>
  /\ idx = 1
  /\ sectionStack = <<>>
  /\ errors = <<>>
  /\ EditorIdle

SyntaxCheck(at, found, then) ==
  /\ pc = at
  /\ errors' = errors \o found
  /\ pc' = then
  /\ UNCHANGED <<editor, text, sections, idx, sectionStack>>

CheckUnclosedTags ==
  SyntaxCheck("checkUnclosedTags", checkUnclosedTags(text), "checkMalformedTags")

CheckMalformedTags ==
  SyntaxCheck("checkMalformedTags", checkMalformedTags(text), "checkInvalidTagNames")

CheckInvalidTagNames ==
  SyntaxCheck("checkInvalidTagNames", checkInvalidTagNames(text), "checkNestedTags")

CheckNestedTags ==
  SyntaxCheck("checkNestedTags", checkNestedTags(text), "checkUnbalancedBraces")

CheckUnbalancedBraces ==
  SyntaxCheck("checkUnbalancedBraces", checkUnbalancedBraces(text), "sortErrors")

SortSyntaxErrors ==
  /\ pc = "sortErrors"
  /\ errors' = sortErrors(errors)
  /\ pc' = "syntaxDone"
  /\ UNCHANGED <<editor, text, sections, idx, sectionStack>>

NextSyntax ==
  \/ CheckUnclosedTags
  \/ CheckMalformedTags
  \/ CheckInvalidTagNames
  \/ CheckNestedTags
  \/ CheckUnbalancedBraces
  \/ SortSyntaxErrors

SpecSyntax == InitSyntax /\ [][NextSyntax]_vars

(***************************************************************************)
(* Texts with balanced tags, read off the text itself: outside a tag there *)
(* is no brace; a tag is {{ body }} or {{{ body }}} whose body holds a     *)
(* name character, no brace and only characters of `inner`.                *)
(***************************************************************************)
Braces == {"{", "}"}
IsAt(t, i, s) == i + Len(s) - 1 <= Len(t) /\ SubSeq(t, i, i + Len(s) - 1) = s

(* first position from i on that is not a body character (Len(t)+1 if none) *)
BodyEnd(t, i, inner) ==
  IF \E j \in i..Len(t) : t[j] \in Braces \/ t[j] \notin inner
  THEN CHOOSE j \in i..Len(t) :
         /\ t[j] \in Braces \/ t[j] \notin inner
         /\ \A h \in i..(j - 1) : t[h] \notin Braces /\ t[h] \in inner
  ELSE Len(t) + 1

HasName(t, from, to) == \E h \in from..to : t[h] \in IdStart

RECURSIVE TagsBalancedFrom(_, _, _)
TagsBalancedFrom(t, i, inner) ==
  IF i > Len(t) THEN TRUE
  ELSE IF t[i] \notin Braces THEN TagsBalancedFrom(t, i + 1, inner)
  ELSE IF IsAt(t, i, <<"{", "{", "{">>)
       THEN LET j == BodyEnd(t, i + 3, inner)
            IN /\ HasName(t, i + 3, j - 1)
               /\ IsAt(t, j, <<"}", "}", "}">>)
               /\ TagsBalancedFrom(t, j + 3, inner)
  ELSE IF IsAt(t, i, <<"{", "{">>)
       THEN LET j == BodyEnd(t, i + 2, inner)
            IN /\ HasName(t, i + 2, j - 1)
               /\ IsAt(t, j, <<"}", "}">>)
               /\ TagsBalancedFrom(t, j + 2, inner)
  ELSE FALSE

AllChars == WordChars \cup Whitespace \cup {".", "-", "#", "^", "/", "&", "!", ">"}
TagsBalanced(t) == TagsBalancedFrom(t, 1, AllChars)
TagsBalancedOnOneLine(t) == TagsBalancedFrom(t, 1, AllChars \ {NL})

SyntaxDone == pc = "syntaxDone"

IsUnclosedTag(e) == e.code = UNCLOSED_TAG_CODE
(* unclosed-tag, unbalanced-brace and malformed/mismatched-brace defects:  *)
(* what checkUnclosedTags, checkMalformedTags and checkUnbalancedBraces    *)
(* report                                                                  *)
IsBraceDefect(e) == e.code = UNCLOSED_TAG_CODE \/ e.code = MUSTACHE_SYNTAX_ERROR

(***************************************************************************)
(* C7: for a text whose every {{ (or {{{) has its matching }} (or }}}) and *)
(* where no tag starts inside another, the syntax pass reports no          *)
(* unclosed-tag, unbalanced-brace or malformed/mismatched-brace defect.    *)
(* Stated for tags that open and close on one line.                        *)
(***************************************************************************)
C7_BalancedNoBraceDefect ==
  (SyntaxDone /\ TagsBalancedOnOneLine(text)) =>
    \A k \in 1..Len(errors) : ~IsBraceDefect(errors[k])

(***************************************************************************)
(* C8: for a text whose only defect is one opening {{ with no closing }}   *)
(* before the end of the text, the syntax pass returns exactly one Error,  *)
(* the unclosed-tag Error at the {{.                                       *)
(***************************************************************************)
(* the text is brace-free but for one {{ , at the 1-based position p *)
OnlyUnclosedOpenAt(t, p) ==
  /\ IsAt(t, p, <<"{", "{">>)
  /\ \A h \in 1..Len(t) : h \notin {p, p + 1} => t[h] \notin Braces

LineOf(t, p) == 1 + Cardinality({h \in 1..(p - 1) : t[h] = NL})
ColumnOf(t, p) ==
  Cardinality({h \in 1..(p - 1) : \A g \in h..(p - 1) : t[g] # NL})

C8_OneUnclosedTagError ==
  SyntaxDone =>
    \A p \in 1..Len(text) :
      OnlyUnclosedOpenAt(text, p) =>
        /\ Len(errors) = 1
        /\ IsUnclosedTag(errors[1])
        /\ errors[1].severity = "error"
        /\ At(errors[1], LineOf(text, p), ColumnOf(text, p))

(***************************************************************************)
(* C9: a line break inside a tag does not close the tag: for a tag whose   *)
(* {{ and }} are on different lines the syntax pass reports no             *)
(* unclosed-tag defect.                                                    *)
(***************************************************************************)
C9_MultiLineTagNotUnclosed ==
  (SyntaxDone /\ TagsBalanced(text) /\ ~TagsBalancedOnOneLine(text)) =>
    \A k \in 1..Len(errors) : ~IsUnclosedTag(errors[k])

(***************************************************************************)
(* JSON.parse: the recursive-descent recognizer of the JSON grammar.  A    *)
(* result is [ok, next, v]: on success next is the 1-based index after the *)
(* value and v the parsed value; on failure next is the index of the       *)
(* offending character (Len(t) + 1 at the end of input).                   *)
(***************************************************************************)
QUOTE == "\""
BACKSLASH == "\\"
TAB == "\t"
JSONWhitespace == {" ", "\t", "\n", "\r"}
ControlChars == {"\t", "\n", "\r", "\f"}        \* the alphabet's part of [\x00-\x1F\x7F]
HexDigits == Digits \cup {"a","b","c","d","e","f","A","B","C","D","E","F"}
SimpleEscapes == {QUOTE, BACKSLASH, "/", "b", "f", "n", "r", "t"}

JSONValue(kind, raw, items) == [t |-> kind, raw |-> raw, items |-> items]
NoValue == JSONValue("none", <<>>, <<>>)
ParseOk(next, v) == [ok |-> TRUE, next |-> next, v |-> v]
ParseFail(at) == [ok |-> FALSE, next |-> at, v |-> NoValue]

RECURSIVE SkipWs(_, _)
SkipWs(t, i) == IF i <= Len(t) /\ t[i] \in JSONWhitespace THEN SkipWs(t, i + 1) ELSE i

RECURSIVE DigitsEnd(_, _)
DigitsEnd(t, i) == IF i <= Len(t) /\ t[i] \in Digits THEN DigitsEnd(t, i + 1) ELSE i

(* the characters of a string literal from j on, up to its closing quote *)
RECURSIVE ScanString(_, _)
ScanString(t, j) ==
  IF j > Len(t) THEN ParseFail(j)
  ELSE IF t[j] = QUOTE THEN ParseOk(j + 1, NoValue)
  ELSE IF t[j] = BACKSLASH
       THEN IF j + 1 > Len(t) THEN ParseFail(j + 1)
            ELSE IF t[j + 1] \in SimpleEscapes THEN ScanString(t, j + 2)
            ELSE IF t[j + 1] = "u"
                 THEN LET bad == {h \in 2..5 : j + h > Len(t) \/ t[j + h] \notin HexDigits}
                      IN IF bad = {} THEN ScanString(t, j + 6)
                         ELSE ParseFail(j + CHOOSE h \in bad : \A g \in bad : h <= g)
            ELSE ParseFail(j + 1)
  ELSE IF t[j] \in ControlChars THEN ParseFail(j)
  ELSE ScanString(t, j + 1)

ParseString(t, i) ==
  LET s == ScanString(t, i + 1)
  IN IF s.ok THEN ParseOk(s.next, JSONValue("str", SubSeq(t, i + 1, s.next - 2), <<>>))
     ELSE s

(* number: optional minus; 0 or a digit string without leading zero;       *)
(* optional fraction (dot, digits); optional exponent (e, sign, digits)    *)
ParseNumber(t, i) ==
  LET a == IF t[i] = "-" THEN i + 1 ELSE i
  IN IF a > Len(t) \/ t[a] \notin Digits THEN ParseFail(a)
     ELSE
       LET b == IF t[a] = "0" THEN a + 1 ELSE DigitsEnd(t, a)
           hasFrac == b <= Len(t) /\ t[b] = "."
           c == IF hasFrac THEN DigitsEnd(t, b + 1) ELSE b
           hasExp == c <= Len(t) /\ t[c] \in {"e", "E"}
           d == IF hasExp /\ c + 1 <= Len(t) /\ t[c + 1] \in {"+", "-"} THEN c + 2 ELSE c + 1
           e == IF hasExp THEN DigitsEnd(t, d) ELSE c
       IN IF hasFrac /\ c = b + 1 THEN ParseFail(c)
          ELSE IF hasExp /\ e = d THEN ParseFail(d)
          ELSE ParseOk(e, JSONValue("num", SubSeq(t, i, e - 1), <<>>))

ParseLiteral(t, i, word) ==
  LET bad == {h \in 1..Len(word) : i + h - 1 > Len(t) \/ t[i + h - 1] # word[h]}
  IN IF bad = {} THEN ParseOk(i + Len(word), JSONValue("lit", word, <<>>))
     ELSE ParseFail(i - 1 + CHOOSE h \in bad : \A g \in bad : h <= g)

RECURSIVE ParseValue(_, _), ParseElements(_, _, _), ParseMembers(_, _, _)
ParseValue(t, from) ==
  LET i == SkipWs(t, from)
  IN IF i > Len(t) THEN ParseFail(i)
     ELSE CASE t[i] = "{" ->
                 LET j == SkipWs(t, i + 1)
                 IN IF j <= Len(t) /\ t[j] = "}"
                    THEN ParseOk(j + 1, JSONValue("obj", <<>>, <<>>))
                    ELSE ParseMembers(t, j, <<>>)
            [] t[i] = "[" ->
                 LET j == SkipWs(t, i + 1)
                 IN IF j <= Len(t) /\ t[j] = "]"
                    THEN ParseOk(j + 1, JSONValue("arr", <<>>, <<>>))
                    ELSE ParseElements(t, j, <<>>)
            [] t[i] = QUOTE -> ParseString(t, i)
            [] t[i] = "-" \/ t[i] \in Digits -> ParseNumber(t, i)
            [] t[i] = "t" -> ParseLiteral(t, i, <<"t", "r", "u", "e">>)
            [] t[i] = "f" -> ParseLiteral(t, i, <<"f", "a", "l", "s", "e">>)
            [] t[i] = "n" -> ParseLiteral(t, i, <<"n", "u", "l", "l">>)
            [] OTHER -> ParseFail(i)

ParseElements(t, i, acc) ==
  LET v == ParseValue(t, i)
  IN IF ~v.ok THEN v
     ELSE LET j == SkipWs(t, v.next)
          IN IF j > Len(t) THEN ParseFail(j)
             ELSE IF t[j] = "," THEN ParseElements(t, j + 1, Append(acc, v.v))
             ELSE IF t[j] = "]" THEN ParseOk(j + 1, JSONValue("arr", <<>>, Append(acc, v.v)))
             ELSE ParseFail(j)

ParseMembers(t, i, acc) ==
  LET k == SkipWs(t, i)
  IN IF k > Len(t) \/ t[k] # QUOTE THEN ParseFail(k)
     ELSE
       LET s == ParseString(t, k)
       IN IF ~s.ok THEN s
          ELSE
            LET c == SkipWs(t, s.next)
            IN IF c > Len(t) \/ t[c] # ":" THEN ParseFail(c)
               ELSE
                 LET v == ParseValue(t, c + 1)
                 IN IF ~v.ok THEN v
                    ELSE
                      LET j == SkipWs(t, v.next)
                          member == [key |-> s.v.raw, value |-> v.v]
                      IN IF j > Len(t) THEN ParseFail(j)
                         ELSE IF t[j] = "," THEN ParseMembers(t, j + 1, Append(acc, member))
                         ELSE IF t[j] = "}"
                              THEN ParseOk(j + 1, JSONValue("obj", <<>>, Append(acc, member)))
                         ELSE ParseFail(j)

JSONparse(t) ==
  LET r == ParseValue(t, 1)
  IN IF ~r.ok THEN r
     ELSE LET j == SkipWs(t, r.next)
          IN IF j > Len(t) THEN r ELSE ParseFail(j)

(***************************************************************************)
(* JSON.stringify(parsed, null, 2).  Characters that exist only as an      *)
(* escape (\b, \uXXXX) are carried as one element naming the code unit.    *)
(***************************************************************************)
RECURSIVE Decode(_)
Decode(raw) ==
  IF Len(raw) = 0 THEN <<>>
  ELSE IF raw[1] # BACKSLASH THEN <<raw[1]>> \o Decode(Tail(raw))
  ELSE IF raw[2] = "u"
       THEN <<"U+" \o raw[3] \o raw[4] \o raw[5] \o raw[6]>> \o Decode(SubSeq(raw, 7, Len(raw)))
  ELSE <<CASE raw[2] = "n" -> "\n"
           [] raw[2] = "t" -> "\t"
           [] raw[2] = "r" -> "\r"
           [] raw[2] = "f" -> "\f"
           [] raw[2] = "b" -> "U+0008"
           [] OTHER -> raw[2]>> \o Decode(SubSeq(raw, 3, Len(raw)))

RECURSIVE Encode(_)
Encode(cs) ==
  IF Len(cs) = 0 THEN <<>>
  ELSE (CASE cs[1] = QUOTE -> <<BACKSLASH, QUOTE>>
          [] cs[1] = BACKSLASH -> <<BACKSLASH, BACKSLASH>>
          [] cs[1] = "\n" -> <<BACKSLASH, "n">>
          [] cs[1] = "\t" -> <<BACKSLASH, "t">>
          [] cs[1] = "\r" -> <<BACKSLASH, "r">>
          [] cs[1] = "\f" -> <<BACKSLASH, "f">>
          [] cs[1] = "U+0008" -> <<BACKSLASH, "b">>
          [] OTHER -> <<cs[1]>>) \o Encode(Tail(cs))

RECURSIVE StripTrailingZeros(_)
StripTrailingZeros(ds) ==
  IF Len(ds) > 0 /\ ds[Len(ds)] = "0"
  THEN StripTrailingZeros(SubSeq(ds, 1, Len(ds) - 1)) ELSE ds

(* Number.prototype.toString of the parsed literal; literals with an      *)
(* exponent are kept as written                                            *)
NumberToString(raw) ==
  IF \E k \in 1..Len(raw) : raw[k] \in {"e", "E"} THEN raw
  ELSE
    LET neg == raw[1] = "-"
        body == IF neg THEN Tail(raw) ELSE raw
        int == SubSeq(body, 1, DigitsEnd(body, 1) - 1)
        frac == StripTrailingZeros(SubSeq(body, Len(int) + 2, Len(body)))
        zero == int = <<"0">> /\ frac = <<>>
    IN (IF neg /\ ~zero THEN <<"-">> ELSE <<>>)
       \o int \o (IF frac = <<>> THEN <<>> ELSE <<".">> \o frac)

(* the own properties of the parsed object: a repeated key keeps the place *)
(* of its first occurrence and the value of its last                       *)
Properties(members) ==
  LET same(a, b) == Decode(members[a].key) = Decode(members[b].key)
      firsts == SelectSeq([k \in 1..Len(members) |-> k],
                          LAMBDA k : \A h \in 1..(k - 1) : ~same(h, k))
      last(k) == CHOOSE h \in k..Len(members) :
                   same(h, k) /\ \A g \in (h + 1)..Len(members) : ~same(g, k)
  IN [n \in 1..Len(firsts) |->
        [key |-> Decode(members[firsts[n]].key), value |-> members[last(firsts[n])].value]]

Spaces(n) == [k \in 1..n |-> " "]

RECURSIVE stringify(_, _), stringifyItems(_, _), stringifyProperties(_, _)
stringify(v, indent) ==
  CASE v.t = "str" -> <<QUOTE>> \o Encode(Decode(v.raw)) \o <<QUOTE>>
    [] v.t = "num" -> NumberToString(v.raw)
    [] v.t = "lit" -> v.raw
    [] v.t = "arr" ->
         IF Len(v.items) = 0 THEN <<"[", "]">>
         ELSE <<"[", NL>> \o stringifyItems(v.items, indent + 2)
              \o <<NL>> \o Spaces(indent) \o <<"]">>
    [] v.t = "obj" ->
         IF Len(v.items) = 0 THEN <<"{", "}">>
         ELSE <<"{", NL>> \o stringifyProperties(Properties(v.items), indent + 2)
              \o <<NL>> \o Spaces(indent) \o <<"}">>

stringifyItems(items, indent) ==
  Spaces(indent) \o stringify(items[1], indent)
  \o (IF Len(items) = 1 THEN <<>> ELSE <<",", NL>> \o stringifyItems(Tail(items), indent))

stringifyProperties(ps, indent) ==
  Spaces(indent) \o <<QUOTE>> \o Encode(ps[1].key) \o <<QUOTE, ":", " ">>
  \o stringify(ps[1].value, indent)
  \o (IF Len(ps) = 1 THEN <<>> ELSE <<",", NL>> \o stringifyProperties(Tail(ps), indent))

(* String.prototype.trim *)
RECURSIVE trim(_)
trim(s) ==
  IF Len(s) = 0 THEN s
  ELSE IF s[1] \in Whitespace THEN trim(Tail(s))
  ELSE IF s[Len(s)] \in Whitespace THEN trim(SubSeq(s, 1, Len(s) - 1))
  ELSE s

(* s.replace(/\r\n/g, "\n") *)
RECURSIVE replaceCRLF(_)
replaceCRLF(s) ==
  IF Len(s) = 0 THEN s
  ELSE IF Len(s) >= 2 /\ s[1] = "\r" /\ s[2] = NL THEN replaceCRLF(Tail(s))
  ELSE <<s[1]>> \o replaceCRLF(Tail(s))

(***************************************************************************)
(* JSONSyntaxValidator.                                                    *)
(***************************************************************************)
JSON_SYNTAX_ERROR == "J001"
TRAILING_COMMA_CODE == "J002"
UNQUOTED_KEY_CODE == "J005"
INVALID_ESCAPE == "J006"

getLineColumnFromPosition(t, position) ==
  LET textBeforePosition == substring(t, 0, IF position < Len(t) THEN position ELSE Len(t))
      lines == split(textBeforePosition)
  IN [line |-> Len(lines), column |-> Len(lines[Len(lines)])]

(* The SyntaxError of JSON.parse for the failed result r.  The engine      *)
(* names the offending token and, depending on its version, the offset     *)
(* ("... at position N", located) or not; at the end of the input it names *)
(* no offset.                                                              *)
SyntaxErrorOf(t, r, located) ==
  IF r.next > Len(t)
  THEN [message |-> <<"Unexpected end of JSON input">>, position |-> -1]
  ELSE [message |-> <<"Unexpected token", t[r.next]>>,
        position |-> IF located THEN r.next - 1 ELSE -1]

parseJSONSyntaxError(error, t) ==
  LET location == IF error.position # -1
                  THEN getLineColumnFromPosition(t, error.position)
                  ELSE [line |-> 1, column |-> 0]
  IN createValidationError(error.message, location.line, location.column,
                           "error", 1, JSON_SYNTAX_ERROR)

validateJSONParsing(t, located) ==
  LET r == JSONparse(t)
  IN IF r.ok THEN <<>> ELSE <<parseJSONSyntaxError(SyntaxErrorOf(t, r, located), t)>>

HEX == In(HexDigits)
ControlCharPattern == <<In(ControlChars)>>                        \* [\x00-\x1F\x7F]
invalidEscapePattern == <<Lit(BACKSLASH), NotIn(SimpleEscapes \cup {"u"})>>
incompleteUnicodePattern ==
  <<Lit(BACKSLASH), Lit("u"), Opt(<<HEX, Opt(<<HEX, Opt(<<HEX>>)>>)>>), NegAhead(<<HEX>>)>>
leadingZeroPattern == <<WordB, Lit("0"), In(Digits), Star(<<In(Digits)>>)>>   \* \b0\d+

(* (beforeMatch.split('"').length - 1) % 2 === 1 *)
insideString(line, index) ==
  Cardinality({k \in 1..index : line[k] = QUOTE}) % 2 = 1

checkLineForSyntaxIssues(line, lineNumber) ==
  LET control == ExecFirst(ControlCharPattern, line, 0)
      escapes == ExecAll(invalidEscapePattern, line, 0)
      unicodes == SelectSeq(ExecAll(incompleteUnicodePattern, line, 0),
                            LAMBDA m : m.e - m.index < 6)
      numbers == SelectSeq(ExecAll(leadingZeroPattern, line, 0),
                           LAMBDA m : ~insideString(line, m.index))
  IN    [k \in 1..Len(control) |->
           createValidationError(<<"Unescaped control character in JSON">>,
                                 lineNumber, control[k].index, "error", 1, INVALID_ESCAPE)]
     \o [k \in 1..Len(escapes) |->
           createValidationError(<<"Invalid escape sequence",
                                   substring(line, escapes[k].index, escapes[k].e)>>,
                                 lineNumber, escapes[k].index, "error",
                                 escapes[k].e - escapes[k].index, INVALID_ESCAPE)]
     \o [k \in 1..Len(unicodes) |->
           createValidationError(<<"Incomplete unicode escape sequence">>,
                                 lineNumber, unicodes[k].index, "error",
                                 unicodes[k].e - unicodes[k].index, INVALID_ESCAPE)]
     \o [k \in 1..Len(numbers) |->
           createValidationError(<<"Numbers cannot have leading zeros in JSON">>,
                                 lineNumber, numbers[k].index, "error",
                                 numbers[k].e - numbers[k].index, JSON_SYNTAX_ERROR)]

validateJSONStructure(t) ==
  Flatten([i \in LineNumbers(t) |-> checkLineForSyntaxIssues(split(t)[i], i)])

openChars == [c \in {"{", "["} |-> IF c = "{" THEN "}" ELSE "]"]
closeChars == [c \in {"}", "]"} |-> IF c = "}" THEN "{" ELSE "["]

unclosedBrackets(stack) ==
  [k \in 1..Len(stack) |->
     createValidationError(<<"Unclosed", stack[k].char, openChars[stack[k].char]>>,
                           stack[k].line, stack[k].column, "error", 1, JSON_SYNTAX_ERROR)]

(* The scan of validateBracketMatching from the character t[i], which is   *)
(* at (lineNumber, charIndex); insideStr and escaped start afresh on every *)
(* line, the stack runs through the text.                                  *)
RECURSIVE bracketScan(_, _, _, _, _, _, _, _)
bracketScan(t, i, lineNumber, charIndex, insideStr, escaped, stack, found) ==
  IF i > Len(t) THEN found \o unclosedBrackets(stack)
  ELSE IF t[i] = NL
       THEN bracketScan(t, i + 1, lineNumber + 1, 0, FALSE, FALSE, stack, found)
  ELSE
    LET char == t[i]
        inside == IF char = QUOTE /\ ~escaped THEN ~insideStr ELSE insideStr
        esc == char = BACKSLASH /\ ~escaped
        opens == ~inside /\ char \in DOMAIN openChars
        closes == ~inside /\ char \in DOMAIN closeChars
        pushed == IF opens
                  THEN Append(stack, [char |-> char, line |-> lineNumber, column |-> charIndex])
                  ELSE stack
        popped == IF closes /\ Len(stack) > 0 THEN SubSeq(stack, 1, Len(stack) - 1) ELSE pushed
        here == IF closes /\ Len(stack) = 0
                THEN <<createValidationError(<<"Unexpected closing", char>>, lineNumber,
                                             charIndex, "error", 1, JSON_SYNTAX_ERROR)>>
                ELSE IF closes /\ stack[Len(stack)].char # closeChars[char]
                THEN <<createValidationError(
                         <<"Mismatched brackets", openChars[stack[Len(stack)].char], char>>,
                         lineNumber, charIndex, "error", 1, JSON_SYNTAX_ERROR)>>
                ELSE <<>>
    IN bracketScan(t, i + 1, lineNumber, charIndex + 1, inside, esc, popped, found \o here)

validateBracketMatching(t) == bracketScan(t, 1, 1, 0, FALSE, FALSE, <<>>, <<>>)

(* quoteStartColumn at the end of the line (-1: no string is open) *)
RECURSIVE quoteScan(_, _, _, _)
quoteScan(line, charIndex, escaped, quoteStartColumn) ==
  IF charIndex >= Len(line) THEN quoteStartColumn
  ELSE LET char == line[charIndex + 1]
       IN quoteScan(line, charIndex + 1, char = BACKSLASH /\ ~escaped,
                    IF char = QUOTE /\ ~escaped
                    THEN (IF quoteStartColumn = -1 THEN charIndex ELSE -1)
                    ELSE quoteStartColumn)

startsWith(s, c) == Len(s) > 0 /\ s[1] = c

unterminatedString(lines, i) ==
  LET quoteStartColumn == quoteScan(lines[i], 0, FALSE, -1)
      isLastLine == i = Len(lines)
      continuesOnNextLine == ~isLastLine /\ startsWith(trim(lines[i + 1]), QUOTE)
  IN IF quoteStartColumn # -1 /\ (isLastLine \/ ~continuesOnNextLine)
     THEN <<createValidationError(<<"Unterminated string literal">>, i, quoteStartColumn,
                                  "error", 1, JSON_SYNTAX_ERROR)>>
     ELSE <<>>

validateQuoteMatching(t) ==
  Flatten([i \in LineNumbers(t) |-> unterminatedString(split(t), i)])

(***************************************************************************)
(* JSONValidator.                                                          *)
(***************************************************************************)
TRAILING_COMMA == <<Lit(","), WS0, In({"}", "]"})>>                 \* ,\s*[}\]]
UNQUOTED_KEY == <<CapS, In(IdStart), Star(<<In(WordChars)>>), CapE, WS0, Lit(":")>>
NotQuoteOrBackslash == NotIn({"'", BACKSLASH})                     \* [^'\\]
SINGLE_QUOTES ==
  <<Lit("'"), Star(<<NotQuoteOrBackslash>>),
    Star(<<Lit(BACKSLASH), AnyChar, Star(<<NotQuoteOrBackslash>>)>>), Lit("'")>>

commonJSONIssues(line, lineNumber) ==
  LET commas == ExecAll(TRAILING_COMMA, line, 0)
      keys == SelectSeq(ExecAll(UNQUOTED_KEY, line, 0),
                        LAMBDA m : ~insideString(line, m.index))
      quotes == ExecAll(SINGLE_QUOTES, line, 0)
  IN    [k \in 1..Len(commas) |->
           createValidationError(<<"Trailing comma in JSON">>, lineNumber, commas[k].index,
                                 "error", commas[k].e - commas[k].index, TRAILING_COMMA_CODE)]
     \o [k \in 1..Len(keys) |->
           createValidationError(<<"JSON keys must be quoted">>, lineNumber, keys[k].index,
                                 "error", keys[k].ce - keys[k].cs, UNQUOTED_KEY_CODE)]
     \o [k \in 1..Len(quotes) |->
           createValidationError(<<"JSON strings must use double quotes, not single quotes">>,
                                 lineNumber, quotes[k].index, "error",
                                 quotes[k].e - quotes[k].index, JSON_SYNTAX_ERROR)]

validateCommonJSONIssues(t) ==
  Flatten([i \in LineNumbers(t) |-> commonJSONIssues(split(t)[i], i)])

validateJSONFormatting(t, parsed) ==
  LET formatted == stringify(parsed, 0)
      normalizedText == trim(replaceCRLF(t))
      normalizedFormatted == trim(replaceCRLF(formatted))
  IN IF normalizedText # normalizedFormatted
     THEN <<createValidationError(
              <<"JSON could be better formatted - consider using auto-format">>,
              1, 0, "hint", NoLength, JSON_SYNTAX_ERROR)>>
     ELSE <<>>

(* the first line that holds the character named after "Unexpected token" *)
findJSONErrorLocation(t, error) ==
  LET lines == split(t)
      named == Len(error.message) = 2
      unexpectedChar == IF error.position # -1 THEN error.message[2] ELSE "'"
      hits == {i \in 1..Len(lines) : named /\ indexOf(lines[i], unexpectedChar, 0) # -1}
  IN IF hits = {} THEN [line |-> 1, column |-> 0]
     ELSE LET i == CHOOSE h \in hits : \A g \in hits : h <= g
          IN [line |-> i, column |-> indexOf(lines[i], unexpectedChar, 0)]

parseJSONError(error, t) ==
  LET byPosition == IF error.position # -1
                    THEN getLineColumnFromPosition(t, error.position)
                    ELSE [line |-> 1, column |-> 0]
      location == IF byPosition.line = 1 /\ byPosition.column = 0
                  THEN findJSONErrorLocation(t, error)
                  ELSE byPosition
  IN createValidationError(<<"Invalid JSON">> \o error.message, location.line,
                           location.column, "error", NoLength, JSON_SYNTAX_ERROR)

validateJSONStructureAndIssues(t, located) ==
  LET r == JSONparse(t)
  IN IF r.ok THEN validateCommonJSONIssues(t) \o validateJSONFormatting(t, r.v)
     ELSE <<parseJSONError(SyntaxErrorOf(t, r, located), t)>>

HasError(es) == \E k \in 1..Len(es) : es[k].severity = "error"

(***************************************************************************)
(* JSONValidator.validateSync on a text: the passes of                     *)
(* JSONSyntaxValidator.validateSync, whose result is errors at             *)
(* pc = "jsonSyntaxDone", then the structure validation.                   *)
(***************************************************************************)
MaxJSONPieces == 4

JSONPieces ==
  { <<"{">>, <<"}">>, <<"[">>, <<"]">>, <<",">>, <<"1">>, <<"0">>, <<TAB>>, <<NL>>,
    <<QUOTE, "a", QUOTE>>,
    <<QUOTE, "a", QUOTE, ":">>,
    <<QUOTE, BACKSLASH, BACKSLASH, "a", QUOTE>>,
    <<QUOTE, "'", "a", "'", QUOTE>> }

InitJSON ==
  /\ text \in TextsOf(JSONPieces, MaxJSONPieces)
  /\ pc = "validateSync"
  /\ sections = <<>>
  /\ idx = 1
  /\ sectionStack = <<>>
  /\ errors = <<>>
  /\ EditorIdle

JSONStep(at, result, then) ==
  /\ pc = at
  /\ errors' = result
  /\ pc' = then
  /\ UNCHANGED <<editor, text, sections, idx, sectionStack>>

EmptyJSONContent ==
  /\ Len(trim(text)) = 0
  /\ JSONStep("validateSync",
              <<createValidationError(<<"Empty JSON content">>, 1, 0, "info",
                                      NoLength, JSON_SYNTAX_ERROR)>>,
              "jsonSyntaxDone")

ValidateJSONParsing ==
  /\ Len(trim(text)) # 0
  /\ \E located \in BOOLEAN :
       JSONStep("validateSync", errors \o validateJSONParsing(text, located),
                "validateJSONStructure")

ValidateJSONStructure ==
  JSONStep("validateJSONStructure", errors \o validateJSONStructure(text),
           "validateBracketMatching")

ValidateBracketMatching ==
  JSONStep("validateBracketMatching", errors \o validateBracketMatching(text),
           "validateQuoteMatching")

ValidateQuoteMatching ==
  JSONStep("validateQuoteMatching", errors \o validateQuoteMatching(text), "sortJSONErrors")

SortJSONSyntaxErrors ==
  JSONStep("sortJSONErrors", sortErrors(errors), "jsonSyntaxDone")

SkipStructureValidation ==
  /\ HasError(errors)
  /\ JSONStep("jsonSyntaxDone", sortErrors(errors), "jsonDone")

StructureValidation ==
  /\ ~HasError(errors)
  /\ \E located \in BOOLEAN :
       JSONStep("jsonSyntaxDone",
                sortErrors(errors \o validateJSONStructureAndIssues(text, located)),
                "jsonDone")

NextJSON ==
  \/ EmptyJSONContent
  \/ ValidateJSONParsing
  \/ ValidateJSONStructure
  \/ ValidateBracketMatching
  \/ ValidateQuoteMatching
  \/ SortJSONSyntaxErrors
  \/ SkipStructureValidation
  \/ StructureValidation

SpecJSON == InitJSON /\ [][NextJSON]_vars

(***************************************************************************)
(* C10: for every text that is valid JSON, neither                         *)
(* JSONSyntaxValidator.validateSync nor JSONValidator.validateSync reports *)
(* an Error-severity defect.                                               *)
(***************************************************************************)
ValidJSON(t) == JSONparse(t).ok

C10_ValidJSONNoError ==
  (pc \in {"jsonSyntaxDone", "jsonDone"} /\ ValidJSON(text)) => ~HasError(errors)

(***************************************************************************)
(* The Mustache syntax pass on plain JSON text.                            *)
(***************************************************************************)
InitSyntaxJSON ==
  /\ text \in TextsOf(JSONPieces, MaxJSONPieces)
  /\ pc = "checkUnclosedTags"
  /\ sections = <<>>
  /\ idx = 1
  /\ sectionStack = <<>>
  /\ errors = <<>>
  /\ EditorIdle

SpecSyntaxJSON == InitSyntaxJSON /\ [][NextSyntax]_vars

HasMustacheTag(t) == includes(t, <<"{", "{">>)

(***************************************************************************)
(* C11: plain JSON text that contains no Mustache tag produces no defect   *)
(* from the Mustache syntax pass, in particular no 'Single braces should   *)
(* be double braces' Error.                                                *)
(***************************************************************************)
C11_PlainJSONNoSyntaxDefect ==
  (SyntaxDone /\ ValidJSON(text) /\ ~HasMustacheTag(text)) => errors = <<>>

(***************************************************************************)
(* C12: for a JSON text whose only defect is a trailing comma immediately  *)
(* before a closing } or ], JSONValidator reports exactly one Error and it *)
(* is positioned at the comma.                                             *)
(***************************************************************************)
(* the comma at the 1-based position p follows a value and comes right     *)
(* before a closer, and the text without it is valid JSON                  *)
TrailingCommaAt(t, p) ==
  /\ t[p] = ","
  /\ \E h \in 1..(p - 1) :
       /\ t[h] \notin JSONWhitespace \cup {"[", "{", ",", ":"}
       /\ \A g \in (h + 1)..(p - 1) : t[g] \in JSONWhitespace
  /\ SkipWs(t, p + 1) <= Len(t)
  /\ t[SkipWs(t, p + 1)] \in {"}", "]"}
  /\ ~ValidJSON(t)
  /\ ValidJSON(RemoveAt(t, p))

ErrorsOf(es) == SelectSeq(es, LAMBDA e : e.severity = "error")

C12_TrailingCommaOneError ==
  pc = "jsonDone" =>
    \A p \in 1..Len(text) :
      TrailingCommaAt(text, p) =>
        /\ Len(ErrorsOf(errors)) = 1
        /\ At(ErrorsOf(errors)[1], LineOf(text, p), ColumnOf(text, p))

(***************************************************************************)
(* validateBracketMatching on a text and on the text with one closing      *)
(* bracket removed (idx: the 1-based position of the removed bracket, 0    *)
(* when the text is scanned as it is).                                     *)
(***************************************************************************)
MaxBracketPieces == 4

BracketPieces ==
  { <<"{">>, <<"}">>, <<"[">>, <<"]">>, <<NL>>,
    <<QUOTE, "a", QUOTE>>, <<QUOTE, "]", QUOTE>> }

InitBrackets ==
  /\ text \in TextsOf(BracketPieces, MaxBracketPieces)
  /\ pc = "validateBracketMatching"
  /\ sections = <<>>
  /\ idx = 0
  /\ sectionStack = <<>>
  /\ errors = <<>>
  /\ EditorIdle

ScanBrackets ==
  /\ pc = "validateBracketMatching"
  /\ errors' = validateBracketMatching(text)
  /\ pc' = "bracketsDone"
  /\ UNCHANGED <<editor, text, sections, idx, sectionStack>>

ScanWithoutBracket ==
  /\ pc = "validateBracketMatching"
  /\ \E p \in 1..Len(text) :
       /\ text[p] \in DOMAIN closeChars
       /\ idx' = p
       /\ errors' = validateBracketMatching(RemoveAt(text, p))
  /\ pc' = "bracketsDone"
  /\ UNCHANGED <<editor, text, sections, sectionStack>>

NextBrackets == ScanBrackets \/ ScanWithoutBracket

SpecBrackets == InitBrackets /\ [][NextBrackets]_vars

(* The brackets of t outside string literals, in order, each with its      *)
(* position; a string literal runs from a quote to the next quote.         *)
OutsideString(t, p) == Cardinality({h \in 1..(p - 1) : t[h] = QUOTE}) % 2 = 0
IsBracketAt(t, p) ==
  t[p] \in DOMAIN openChars \cup DOMAIN closeChars /\ OutsideString(t, p)
BracketsOf(t) ==
  SelectSeq([p \in 1..Len(t) |-> [char |-> t[p], at |-> p]],
            LAMBDA b : IsBracketAt(t, b.at))

(* balanced and ordered: empty, or an adjacent pair of an opener and its   *)
(* closer can be taken out and the rest is balanced                        *)
RECURSIVE BalancedBrackets(_)
BalancedBrackets(bs) ==
  \/ Len(bs) = 0
  \/ \E k \in 1..(Len(bs) - 1) :
       /\ bs[k].char \in DOMAIN openChars
       /\ bs[k + 1].char = openChars[bs[k].char]
       /\ BalancedBrackets(SubSeq(bs, 1, k - 1) \o SubSeq(bs, k + 2, Len(bs)))

(* the position of the opener that the closer at position p closes *)
OpenerOf(t, p) ==
  LET bs == BracketsOf(t)
      j == CHOOSE n \in 1..Len(bs) : bs[n].at = p
      i == CHOOSE n \in 1..(j - 1) :
             /\ bs[n].char = closeChars[bs[j].char]
             /\ BalancedBrackets(SubSeq(bs, n + 1, j - 1))
  IN bs[i].at

(***************************************************************************)
(* C13: starting from a text whose brackets outside string literals are    *)
(* balanced and ordered, removing one closing bracket makes                *)
(* validateBracketMatching report exactly one defect: an 'Unclosed' Error  *)
(* positioned at the opener that the removed bracket used to close.        *)
(* Stated for the removals that the remaining text determines: no other    *)
(* closing bracket's removal leaves the same text.                         *)
(***************************************************************************)
RemovalDetermined(t, p) ==
  \A q \in 1..Len(t) :
    (q # p /\ IsBracketAt(t, q) /\ t[q] \in DOMAIN closeChars)
      => RemoveAt(t, q) # RemoveAt(t, p)

C13_RemovedCloserUnclosedAtOpener ==
  (/\ pc = "bracketsDone"
   /\ idx # 0
   /\ IsBracketAt(text, idx)
   /\ RemovalDetermined(text, idx)
   /\ BalancedBrackets(BracketsOf(text))) =>
    /\ Len(errors) = 1
    /\ errors[1].message[1] = "Unclosed"
    /\ errors[1].severity = "error"
    /\ At(errors[1], LineOf(text, OpenerOf(text, idx)), ColumnOf(text, OpenerOf(text, idx)))

(***************************************************************************)
(* MustacheSectionValidator: the passes after validateSectionMatching.     *)
(***************************************************************************)
maxNestingDepth == 10

(* sectionStack.find((s) => s.section.name === section.name), and the      *)
(* hint when the frame found is on another line.                           *)
(* Mutant of sameNameNesting: the hint is emitted whatever the line of the *)
(* frame found.                                                            *)
sameNameNestingAnyLine(stack, section) ==
  IF \E i \in 1..Len(stack) : stack[i].section.name = section.name
  THEN <<createValidationError(<<"Nested section with same name", section.name>>,
           section.startLine, section.startColumn, "hint", section.length,
           NESTED_SECTIONS)>>
  ELSE <<>>

sameNameNesting(stack, section) ==
  IF \E i \in 1..Len(stack) : stack[i].section.name = section.name
  THEN LET i == CHOOSE i \in 1..Len(stack) :
                  /\ stack[i].section.name = section.name
                  /\ \A j \in 1..(i - 1) : stack[j].section.name # section.name
       IN IF stack[i].section.startLine # section.startLine
          THEN <<createValidationError(<<"Nested section with same name", section.name>>,
                   section.startLine, section.startColumn, "hint", section.length,
                   NESTED_SECTIONS)>>
          ELSE <<>>
  ELSE <<>>

(* Mutant of nestingTooDeep: the limit is compared with > instead of >=. *)
nestingTooDeepAbove(stack, section) ==
  IF Len(stack) > maxNestingDepth
  THEN <<createValidationError(<<"Section nesting too deep", Len(stack) + 1>>,
           section.startLine, section.startColumn, "warning", section.length,
           NESTED_SECTIONS)>>
  ELSE <<>>

nestingTooDeep(stack, section) ==
  IF Len(stack) >= maxNestingDepth
  THEN <<createValidationError(<<"Section nesting too deep", Len(stack) + 1>>,
           section.startLine, section.startColumn, "warning", section.length,
           NESTED_SECTIONS)>>
  ELSE <<>>

nestSection(st, section) ==
  IF IsOpening(section)
  THEN [stack  |-> pushSection(st.stack, section),
        errors |-> st.errors \o nestingTooDeep(st.stack, section)
                             \o sameNameNesting(st.stack, section)]
  ELSE IF IsClosing(section)
       THEN [stack |-> popSection(st.stack, section), errors |-> st.errors]
       ELSE st

RECURSIVE nestAll(_, _)
nestAll(st, secs) ==
  IF Len(secs) = 0 THEN st ELSE nestAll(nestSection(st, Head(secs)), Tail(secs))

validateSectionNesting(secs) == nestAll([stack |-> <<>>, errors |-> <<>>], secs).errors

(* String.prototype.toLowerCase on the letters of a name *)
UpperCase == <<"A","B","C","D","E","F","G","H","I","J","K","L","M",
               "N","O","P","Q","R","S","T","U","V","W","X","Y","Z">>
LowerCase == <<"a","b","c","d","e","f","g","h","i","j","k","l","m",
               "n","o","p","q","r","s","t","u","v","w","x","y","z">>

LowerOf(c) ==
  IF c \in UpperLetters
  THEN LowerCase[CHOOSE k \in 1..Len(UpperCase) : UpperCase[k] = c]
  ELSE c

toLowerCase(s) == [i \in 1..Len(s) |-> LowerOf(s[i])]

reservedWords ==
  { <<"i","f">>, <<"e","l","s","e">>, <<"f","o","r">>, <<"w","h","i","l","e">>,
    <<"f","u","n","c","t","i","o","n">>, <<"v","a","r">>, <<"l","e","t">>,
    <<"c","o","n","s","t">> }

maxNameLength == 50

sectionNameErrors(section) ==
  LET name == trim(section.name)
      err(message, severity) ==
        <<createValidationError(message, section.startLine, section.startColumn,
                                severity, section.length, INVALID_TAG_NAME)>>
  IN IF IsClosing(section) THEN <<>>
     ELSE IF Len(name) = 0 THEN err(<<"Section name cannot be empty">>, "error")
     ELSE (IF name[1] \notin IdStart
           THEN err(<<"Section names should start with a letter or underscore">>, "warning")
           ELSE <<>>)
       \o (IF toLowerCase(name) \in reservedWords
           THEN err(<<"is a reserved word", name>>, "hint") ELSE <<>>)
       \o (IF Len(name) > maxNameLength
           THEN err(<<"Section name is very long">>, "hint") ELSE <<>>)

validateSectionNames(secs) == Flatten([k \in 1..Len(secs) |-> sectionNameErrors(secs[k])])

(* groupSectionPairs: a closer is paired with the nearest open section of  *)
(* its name, which is spliced out of the stack; a state is [stack, pairs]. *)
NoSection == [type |-> "none"]

pairSection(st, section) ==
  IF IsOpening(section)
  THEN [stack |-> Append(st.stack, section), pairs |-> st.pairs]
  ELSE IF IsClosing(section) /\ \E i \in 1..Len(st.stack) : st.stack[i].name = section.name
       THEN LET i == CHOOSE i \in 1..Len(st.stack) :
                       /\ st.stack[i].name = section.name
                       /\ \A j \in (i + 1)..Len(st.stack) : st.stack[j].name # section.name
            IN [stack |-> SubSeq(st.stack, 1, i - 1) \o SubSeq(st.stack, i + 1, Len(st.stack)),
                pairs |-> Append(st.pairs, [opening |-> st.stack[i], closing |-> section])]
       ELSE st

RECURSIVE pairAll(_, _)
pairAll(st, secs) ==
  IF Len(secs) = 0 THEN st ELSE pairAll(pairSection(st, Head(secs)), Tail(secs))

groupSectionPairs(secs) ==
  LET st == pairAll([stack |-> <<>>, pairs |-> <<>>], secs)
  IN st.pairs \o [k \in 1..Len(st.stack) |-> [opening |-> st.stack[k], closing |-> NoSection]]

(* lines[i].substring(from) followed by "\n" *)
lineFrom(line, from) == SubSeq(line, from + 1, Len(line)) \o <<NL>>

extractSectionContent(lines, startLine, startColumn, endLine, endColumn) ==
  IF startLine = endLine
  THEN IF startLine <= Len(lines) THEN substring(lines[startLine], startColumn, endColumn)
       ELSE <<>>
  ELSE Flatten([i \in 1..Len(lines) |->
         IF i < startLine \/ i > endLine THEN <<>>
         ELSE IF i = startLine THEN lineFrom(lines[i], startColumn)
         ELSE IF i = endLine THEN substring(lines[i], 0, endColumn)
         ELSE lineFrom(lines[i], 0)])

COMMENT_TAG == <<LB, LB, Lit("!"), LazyStar(<<AnyChar>>), RB, RB>>   \* \{\{!.*?\}\}

(* content.replace(/\{\{!.*?\}\}/g, "") *)
RECURSIVE removeComments(_)
removeComments(s) ==
  LET ms == ExecFirst(COMMENT_TAG, s, 0)
  IN IF Len(ms) = 0 THEN s
     ELSE SubSeq(s, 1, ms[1].index) \o removeComments(SubSeq(s, ms[1].e + 1, Len(s)))

(* new RegExp(`^\\s*\\{\\{[#^]\\s*${name}\\s*\\}\\}`): the name is pasted   *)
(* in as pattern source, so a dot of the name matches any character.       *)
immediateNestedPattern(name) ==
  <<WS0, LB, LB, In({"#", "^"}), WS0>>
  \o [i \in 1..Len(name) |-> IF name[i] = "." THEN AnyChar ELSE Lit(name[i])]
  \o <<WS0, RB, RB>>

checkSectionAntiPatterns(pair, content) ==
  LET err(message, severity, code) ==
        <<createValidationError(message, pair.opening.startLine, pair.opening.startColumn,
                                severity, pair.opening.length, code)>>
  IN (IF Len(trim(removeComments(content))) = 0 /\ Len(trim(content)) # 0
      THEN err(<<"contains only comments or whitespace", pair.opening.name>>, "hint",
               MUSTACHE_SYNTAX_ERROR)
      ELSE <<>>)
  \o (IF M(immediateNestedPattern(pair.opening.name), content, 0, <<-1, -1>>).ok
      THEN err(<<"Immediately nested section with same name", pair.opening.name>>,
               "warning", NESTED_SECTIONS)
      ELSE <<>>)

validateSectionContent(pair, content) ==
  (IF Len(trim(content)) = 0 /\ pair.opening.type = "normal"
   THEN <<createValidationError(<<"Empty section content", pair.opening.name>>,
            pair.opening.startLine, pair.opening.startColumn, "hint",
            pair.opening.length, MUSTACHE_SYNTAX_ERROR)>>
   ELSE <<>>)
  \o checkSectionAntiPatterns(pair, content)

pairErrors(pair, lines) ==
  IF pair.closing = NoSection THEN <<>>
  ELSE validateSectionContent(pair,
         extractSectionContent(lines, pair.opening.startLine,
                               pair.opening.startColumn + pair.opening.length,
                               pair.closing.startLine, pair.closing.startColumn))

validateSectionLogic(secs, t) ==
  LET pairs == groupSectionPairs(secs)
  IN Flatten([k \in 1..Len(pairs) |-> pairErrors(pairs[k], split(t))])

(* MustacheSectionValidator.validateSync *)
sectionValidateSync(secs, t) ==
  sortErrors(validateSectionMatching(secs) \o validateSectionNesting(secs)
             \o validateSectionNames(secs) \o validateSectionLogic(secs, t))

(***************************************************************************)
(* Mustache.parse of the mustache library, as validateCompilation calls    *)
(* it: the tag scanner with the default delimiters.  The result is         *)
(* [ok, message, tokens]; tokens are the tags at the top level of the      *)
(* token tree, the only ones validateCompilation iterates over.            *)
(***************************************************************************)
TEMPLATE_COMPILE_ERROR == "R002"

TagSigils == {"#", "^", "/", ">", "{", "&", "=", "!"}            \* tagRe
openingTagRe == <<LB, LB, WS0>>
closingTagRe == <<WS0, RB, RB>>
closingCurlyRe == <<WS0, RB, RB, RB>>
curlyRe == <<WS0, RB>>
equalsRe == <<WS0, Lit("=")>>

(* Scanner.scanUntil(re): the offset of the first match of re from pos on, *)
(* the end of the text when there is none.                                 *)
scanUntil(t, pos, re) ==
  LET ms == ExecFirst(re, t, pos)
  IN IF Len(ms) = 0 THEN Len(t) ELSE ms[1].index

(* Scanner.scan(re): the offset after a match of re at pos, pos itself     *)
(* when re does not match there.                                           *)
scan(t, pos, re) ==
  LET m == M(re, t, pos, <<-1, -1>>)
  IN IF m.ok THEN m.e ELSE pos

ParseThrows(message) == [ok |-> FALSE, message |-> message, tokens |-> <<>>]

(* type = scanner.scan(tagRe) || "name" *)
tagType(t, from) == IF charAt(t, from) \in TagSigils THEN charAt(t, from) ELSE "name"

(* The token [type, value, start, end] of a tag; closed says whether       *)
(* scanner.scan(closingTagRe) consumed the closing delimiter at closeAt.   *)
tagToken(t, start, type, valueAt, valueEnd, closeAt, end) ==
  [closed |-> end # closeAt,
   type   |-> IF type = "{" THEN "&" ELSE type,
   value  |-> substring(t, valueAt, valueEnd),
   start  |-> start,
   end    |-> end]

(* The scans between the tag's value and its closing delimiter. *)
scanTagEnd(t, start, type, valueAt, valueEnd, closeAt) ==
  tagToken(t, start, type, valueAt, valueEnd, closeAt, scan(t, closeAt, closingTagRe))

scanTagClose(t, start, type, valueAt, valueEnd) ==
  scanTagEnd(t, start, type, valueAt, valueEnd,
    CASE type = "=" -> scanUntil(t, scan(t, valueEnd, equalsRe), closingTagRe)
      [] type = "{" -> scanUntil(t, scan(t, valueEnd, curlyRe), closingTagRe)
      [] OTHER      -> valueEnd)

scanTagValue(t, start, type, valueAt) ==
  scanTagClose(t, start, type, valueAt,
    CASE type = "=" -> scanUntil(t, valueAt, equalsRe)
      [] type = "{" -> scanUntil(t, valueAt, closingCurlyRe)
      [] OTHER      -> scanUntil(t, valueAt, closingTagRe))

(* The tag that starts at the offset start, its body beginning at from. *)
scanTagOfType(t, start, from, type) ==
  scanTagValue(t, start, type,
    scan(t, IF type = "name" THEN from ELSE from + 1, <<WS0>>))

scanTag(t, start, from) == scanTagOfType(t, start, from, tagType(t, from))

(* After the loop: an open section is left unclosed. *)
parseEnd(t, open, tokens) ==
  IF Len(open) > 0
  THEN ParseThrows(<<"Unclosed section", open[Len(open)], Len(t)>>)
  ELSE [ok |-> TRUE, message |-> <<>>, tokens |-> tokens]

(* The while loop of parseTemplate: open is the stack of the names of the  *)
(* open sections.  A set-delimiter tag leaves the delimiters as they are.  *)
RECURSIVE mustacheScan(_, _, _, _)

(* tokens.push(token) and the check of the section nesting *)
pushToken(t, tag, open, tokens) ==
  IF ~tag.closed THEN ParseThrows(<<"Unclosed tag", tag.end>>)
  ELSE IF tag.type \in {"#", "^"}
       THEN mustacheScan(t, tag.end, Append(open, tag.value),
                         IF Len(open) = 0 THEN Append(tokens, tag) ELSE tokens)
  ELSE IF tag.type = "/"
       THEN IF Len(open) = 0
            THEN ParseThrows(<<"Unopened section", tag.value, tag.start>>)
            ELSE IF open[Len(open)] # tag.value
                 THEN ParseThrows(<<"Unclosed section", open[Len(open)], tag.start>>)
                 ELSE mustacheScan(t, tag.end, SubSeq(open, 1, Len(open) - 1), tokens)
  ELSE mustacheScan(t, tag.end, open,
                    IF Len(open) = 0 THEN Append(tokens, tag) ELSE tokens)

(* if (!scanner.scan(openingTagRe)) break *)
scanOpening(t, start, from, open, tokens) ==
  IF from = start THEN parseEnd(t, open, tokens)
  ELSE pushToken(t, scanTag(t, start, from), open, tokens)

scanText(t, start, open, tokens) ==
  scanOpening(t, start, scan(t, start, openingTagRe), open, tokens)

mustacheScan(t, pos, open, tokens) ==
  IF pos >= Len(t) THEN parseEnd(t, open, tokens)
  ELSE scanText(t, scanUntil(t, pos, openingTagRe), open, tokens)

MustacheParse(t) == mustacheScan(t, 0, <<>>, <<>>)

(* MustacheValidator.findErrorLocationInText: the thrown messages start    *)
(* with "Unclosed", "Unopened" or "Invalid"; line.match with the global    *)
(* UNCLOSED_TAG yields no index, so the column of its branch is 0.         *)
InvalidTail == <<LB, LB, NotRB0, Eol>>          \* \{\{[^}]*$

RECURSIVE findErrorLocationFrom(_, _, _)
findErrorLocationFrom(lines, i, message) ==
  IF i > Len(lines) THEN <<>>
  ELSE IF message[1] \in {"Unclosed tag", "Unclosed section"}
          /\ Len(ExecFirst(UNCLOSED_TAG, lines[i], 0)) > 0
       THEN <<[line |-> i, column |-> 0]>>
  ELSE IF message[1] = "Invalid tags" /\ Len(ExecFirst(InvalidTail, lines[i], 0)) > 0
       THEN <<[line |-> i, column |-> ExecFirst(InvalidTail, lines[i], 0)[1].index]>>
  ELSE findErrorLocationFrom(lines, i + 1, message)

findErrorLocationInText(t, message) == findErrorLocationFrom(split(t), 1, message)

(* MustacheValidator.parseMustacheCompilationError: the messages of the    *)
(* parser carry an offset, no "line N" or "column N".                      *)
parseMustacheCompilationError(message, t) ==
  LET location == findErrorLocationInText(t, message)
  IN createValidationError(<<"Template compilation error">> \o message,
       IF Len(location) > 0 THEN location[1].line ELSE 1,
       IF Len(location) > 0 THEN location[1].column ELSE 0,
       "error", NoLength, TEMPLATE_COMPILE_ERROR)

emptyVariableName(t, token) ==
  IF token.type = "name" /\ Len(trim(token.value)) = 0
  THEN <<createValidationError(<<"Empty variable name">>,
           getLineColumnFromPosition(t, token.start).line,
           getLineColumnFromPosition(t, token.start).column,
           "error", token.end - token.start, INVALID_TAG_NAME)>>
  ELSE <<>>

validateCompilation(t) ==
  LET parsed == MustacheParse(t)
  IN IF parsed.ok
     THEN Flatten([k \in 1..Len(parsed.tokens) |-> emptyVariableName(t, parsed.tokens[k])])
     ELSE <<parseMustacheCompilationError(parsed.message, t)>>

(* MustacheSyntaxValidator.validateSync *)
syntaxValidateSync(t) ==
  sortErrors(checkUnclosedTags(t) \o checkMalformedTags(t) \o checkInvalidTagNames(t)
             \o checkNestedTags(t) \o checkUnbalancedBraces(t))

(***************************************************************************)
(* MustacheValidator.validate as a state machine: the size check, the      *)
(* four passes inside the try block, the final sort, and the catch         *)
(* branch taken when a pass throws.  Sizes are counted in characters (the  *)
(* texts are ASCII), with a mebibyte of MebiByte characters.               *)
(***************************************************************************)
MaxValidatePieces == 4
MebiByte == 2
MAX_FILE_SIZE_MB == 10

ValidatePieces ==
  { <<"{","{","#","a","}","}">>, <<"{","{","#","b","}","}">>,
    <<"{","{","^","a","}","}">>,
    <<"{","{","/","a","}","}">>, <<"{","{","/","b","}","}">>,
    <<"{","{","a","}","}">>, <<NL>> }

(* Buffer.byteLength(text, "utf8") / (1024 * 1024) <= MAX_FILE_SIZE_MB *)
isFileSizeAcceptable(t) == Len(t) <= MAX_FILE_SIZE_MB * MebiByte

fileTooLarge ==
  createValidationError(<<"File too large for validation">>, 1, 0, "warning",
                        NoLength, MUSTACHE_SYNTAX_ERROR)

validationFailed(fault) ==
  createValidationError(<<"Mustache validation failed", fault>>, 1, 0, "error",
                        NoLength, MUSTACHE_SYNTAX_ERROR)

InitValidate ==
  /\ text \in TextsOf(ValidatePieces, MaxValidatePieces)
  /\ pc = "validate"
  /\ sections = <<>>
  /\ idx = 0
  /\ sectionStack = <<>>
  /\ errors = <<>>
  /\ EditorIdle

FileTooLarge ==
  /\ pc = "validate"
  /\ ~isFileSizeAcceptable(text)
  /\ errors' = <<fileTooLarge>>
  /\ pc' = "rejected"
  /\ UNCHANGED <<editor, text, sections, idx, sectionStack>>

ParsePass ==
  /\ pc = "validate"
  /\ isFileSizeAcceptable(text)
  /\ sections' = parseTemplate(text)
  /\ pc' = "syntax"
  /\ UNCHANGED <<editor, text, idx, sectionStack, errors>>

ValidatePass(at, found, then) ==
  /\ pc = at
  /\ errors' = errors \o found
  /\ pc' = then
  /\ UNCHANGED <<editor, text, sections, idx, sectionStack>>

SyntaxPass == ValidatePass("syntax", syntaxValidateSync(text), "section")

SectionPass == ValidatePass("section", sectionValidateSync(sections, text), "compilation")

CompilationPass == ValidatePass("compilation", validateCompilation(text), "sort")

ReturnSorted ==
  /\ pc = "sort"
  /\ errors' = sortErrors(errors)
  /\ pc' = "returned"
  /\ UNCHANGED <<editor, text, sections, idx, sectionStack>>

(* catch (error): a pass of the try block threw; the result is the single  *)
(* synthetic Error made of the fault's message.                            *)
PassThrows ==
  /\ \/ pc = "validate" /\ isFileSizeAcceptable(text)
     \/ pc \in {"syntax", "section", "compilation"}
  /\ errors' = <<validationFailed("fault")>>
  /\ pc' = "caught"
  /\ UNCHANGED <<editor, text, sections, idx, sectionStack>>

NextValidate ==
  \/ FileTooLarge
  \/ ParsePass
  \/ SyntaxPass
  \/ SectionPass
  \/ CompilationPass
  \/ ReturnSorted
  \/ PassThrows

SpecValidate == InitValidate /\ [][NextValidate]_vars

(***************************************************************************)
(* The only defect of the text is a closer of another name: its section    *)
(* tags are one opener and, after it, one closer, the names differ, and    *)
(* every tag is well formed.                                               *)
(***************************************************************************)
OnlyMismatchedCloser(t) ==
  LET secs == parseTemplate(t)
  IN /\ TagsBalanced(t)
     /\ Len(secs) = 2
     /\ IsOpening(secs[1]) /\ IsClosing(secs[2])
     /\ secs[1].name # secs[2].name
     /\ Before(secs[1], secs[2])

(* C14: for a template whose only defect is a closing section tag of a     *)
(* name other than the open section's, MustacheValidator.validate returns  *)
(* exactly one Error, at the closer, exactly one Info, at the opener, and  *)
(* no other defect.                                                        *)
C14_MismatchedCloserOnly ==
  (pc = "returned" /\ OnlyMismatchedCloser(text)) =>
    /\ Len(errors) = 2
    /\ \E k \in 1..2 : /\ errors[k].severity = "error"
                       /\ At(errors[k], sections[2].startLine, sections[2].startColumn)
    /\ \E k \in 1..2 : /\ errors[k].severity = "info"
                       /\ At(errors[k], sections[1].startLine, sections[1].startColumn)

(***************************************************************************)
(* C18: when a pass throws inside MustacheValidator.validate, the returned *)
(* list holds a single synthetic Error at line 1, column 0 with the        *)
(* fault's message, and every defect the passes before it had produced is  *)
(* still in the returned list.                                             *)
(***************************************************************************)
C18_FaultKeepsDefects ==
  [][PassThrows =>
       /\ Len(SelectSeq(errors', LAMBDA e : e = validationFailed("fault"))) = 1
       /\ \A i \in 1..Len(errors) : \E k \in 1..Len(errors') : errors'[k] = errors[i]]_vars

(***************************************************************************)
(* The validators as functions of the text: the result of validate when    *)
(* no pass throws.                                                         *)
(***************************************************************************)
mustacheValidate(t) ==
  IF ~isFileSizeAcceptable(t) THEN <<fileTooLarge>>
  ELSE sortErrors(syntaxValidateSync(t) \o sectionValidateSync(parseTemplate(t), t)
                  \o validateCompilation(t))

(* JSONSyntaxValidator.validateSync *)
jsonSyntaxValidateSync(t, located) ==
  IF Len(trim(t)) = 0
  THEN <<createValidationError(<<"Empty JSON content">>, 1, 0, "info",
                               NoLength, JSON_SYNTAX_ERROR)>>
  ELSE sortErrors(validateJSONParsing(t, located) \o validateJSONStructure(t)
                  \o validateBracketMatching(t) \o validateQuoteMatching(t))

jsonTooLarge ==
  createValidationError(<<"File too large for JSON validation">>, 1, 0, "warning",
                        NoLength, JSON_SYNTAX_ERROR)

(* JSONValidator.validate without a schema *)
jsonStructureAfter(t, located, syntaxErrors) ==
  IF HasError(syntaxErrors) THEN sortErrors(syntaxErrors)
  ELSE sortErrors(syntaxErrors \o validateJSONStructureAndIssues(t, located))

jsonValidate(t, located) ==
  IF ~isFileSizeAcceptable(t) THEN <<jsonTooLarge>>
  ELSE jsonStructureAfter(t, located, jsonSyntaxValidateSync(t, located))

(***************************************************************************)
(* Mustache.render(template, {}) of the mustache library: the context is   *)
(* the empty object getDefaultContext returns when no context file is      *)
(* selected, so a variable renders as nothing, a section {{#x}} is left    *)
(* out and an inverted section {{^x}} is rendered.                         *)
(***************************************************************************)
RECURSIVE standaloneFrom(_, _, _)

standaloneTag(line, tag, hasTag) ==
  /\ tag.closed
  /\ tag.type \notin {"name", "&"}
  /\ standaloneFrom(line, tag.end, TRUE)

standaloneAt(line, pos, from, hasTag) ==
  IF from # pos THEN standaloneTag(line, scanTag(line, pos, from), hasTag)
  ELSE line[pos + 1] \in Whitespace /\ standaloneFrom(line, pos + 1, hasTag)

(* stripSpace: the line holds a tag, no variable tag, and no text other    *)
(* than whitespace.                                                        *)
standaloneFrom(line, pos, hasTag) ==
  IF pos >= Len(line) THEN hasTag
  ELSE standaloneAt(line, pos, scan(line, pos, openingTagRe), hasTag)

RECURSIVE tagsOnlyFrom(_, _)

tagsOnlyTag(line, pos, tag) == SubSeq(line, pos + 1, tag.end) \o tagsOnlyFrom(line, tag.end)

tagsOnlyAt(line, pos, from) ==
  IF from # pos THEN tagsOnlyTag(line, pos, scanTag(line, pos, from))
  ELSE tagsOnlyFrom(line, pos + 1)

(* The tags of a standalone line, its whitespace deleted. *)
tagsOnlyFrom(line, pos) ==
  IF pos >= Len(line) THEN <<>>
  ELSE tagsOnlyAt(line, pos, scan(line, pos, openingTagRe))

(* The template without the whitespace of its standalone lines, line       *)
(* breaks included.                                                        *)
stripSpace(t) ==
  LET lines == split(t)
  IN Flatten([i \in 1..Len(lines) |->
       IF standaloneFrom(lines[i], 0, FALSE) THEN tagsOnlyFrom(lines[i], 0)
       ELSE lines[i] \o (IF i < Len(lines) THEN <<NL>> ELSE <<>>)])

RECURSIVE renderTokens(_, _, _)

renderTag(t, tag, open) ==
  IF tag.type \in {"#", "^"} THEN renderTokens(t, tag.end, Append(open, tag.type))
  ELSE IF tag.type = "/" THEN renderTokens(t, tag.end, SubSeq(open, 1, Len(open) - 1))
  ELSE renderTokens(t, tag.end, open)

(* open is the stack of the kinds of the sections being rendered; text is  *)
(* written when none of them is a section of the (absent) value.           *)
renderAt(t, pos, from, open) ==
  IF from # pos THEN renderTag(t, scanTag(t, pos, from), open)
  ELSE (IF \E k \in 1..Len(open) : open[k] = "#" THEN <<>> ELSE <<t[pos + 1]>>)
       \o renderTokens(t, pos + 1, open)

renderTokens(t, pos, open) ==
  IF pos >= Len(t) THEN <<>>
  ELSE renderAt(t, pos, scan(t, pos, openingTagRe), open)

MustacheRender(t) == renderTokens(stripSpace(t), 0, <<>>)

(* TemplateEngine.renderTemplate(template): Mustache.parse, then           *)
(* Mustache.render; a throw of the parser is the error of the result.      *)
renderResult(t, parsed) ==
  IF parsed.ok
  THEN [success |-> TRUE, output |-> MustacheRender(t), error |-> <<>>]
  ELSE [success |-> FALSE, output |-> <<>>, error |-> parsed.message]

renderTemplate(t) == renderResult(t, MustacheParse(t))

(***************************************************************************)
(* DiagnosticsProvider.filterErrorsByConfig and updateDiagnostics.         *)
(***************************************************************************)
(* Mutant of shownByConfig: hints follow showWarnings. *)
shownByWarningsOnly(error, cfg) ==
  CASE error.severity = "warning" -> cfg.showWarnings
    [] error.severity = "hint"    -> cfg.showWarnings
    [] OTHER                      -> TRUE

shownByConfig(error, cfg) ==
  CASE error.severity = "warning" -> cfg.showWarnings
    [] error.severity = "hint"    -> cfg.showHints
    [] OTHER                      -> TRUE

filterErrorsByConfig(es, cfg) == SelectSeq(es, LAMBDA e : shownByConfig(e, cfg))

(***************************************************************************)
(* validateDocument (extension.ts) as a state machine.                     *)
(***************************************************************************)
MaxDocumentPieces == 4

DocumentPieces ==
  { <<"{","{","#","a","}","}">>, <<"{","{","^","a","}","}">>,
    <<"{","{","/","a","}","}">>, <<"{","{","a","}","}">>,
    <<"]">>, <<"1">>, <<NL>> }

Configs == [showWarnings : BOOLEAN, showHints : BOOLEAN, validateJsonOutput : BOOLEAN]

renderingFailed(error) ==
  [message |-> <<"Template rendering failed">> \o error, line |-> 1, column |-> 0,
   severity |-> "error", length |-> NoLength, code |-> ""]

InitDocument ==
  /\ text \in TextsOf(DocumentPieces, MaxDocumentPieces)
  /\ pc = "validateDocument"
  /\ sections = <<>>
  /\ idx = 0
  /\ sectionStack = <<>>
  /\ errors = <<>>
  /\ config \in Configs
  /\ output = <<>>
  /\ diagnostics = <<>>
  /\ returned = <<>>
  /\ EventLoopIdle
  /\ ExtensionHostIdle

ValidateMustache ==
  /\ pc = "validateDocument"
  /\ errors' = errors \o mustacheValidate(text)
  /\ pc' = "mustacheValidated"
  /\ UNCHANGED <<editor, text, sections, idx, sectionStack>>

SkipRender ==
  /\ pc = "mustacheValidated"
  /\ ~(config.validateJsonOutput /\ ~HasError(errors))
  /\ pc' = "collected"
  /\ UNCHANGED <<editor, text, sections, idx, sectionStack, errors>>

(* The branches after `await templateEngine.renderTemplate(text)`. *)
RenderOutcome(rendered) ==
  /\ output' = rendered.output
  /\ errors' = errors \o (IF ~rendered.success /\ rendered.error # <<>>
                          THEN <<renderingFailed(rendered.error)>> ELSE <<>>)
  /\ pc' = IF rendered.success /\ rendered.output # <<>>
           THEN "rendered" ELSE "collected"

RenderTemplate ==
  /\ pc = "mustacheValidated"
  /\ config.validateJsonOutput /\ ~HasError(errors)
  /\ RenderOutcome(renderTemplate(text))
  /\ UNCHANGED <<text, sections, idx, sectionStack, config, diagnostics, returned,
               eventLoop, extensionHost>>

ValidateJSONOutput ==
  /\ pc = "rendered"
  /\ \E located \in BOOLEAN : errors' = errors \o jsonValidate(output, located)
  /\ pc' = "collected"
  /\ UNCHANGED <<editor, text, sections, idx, sectionStack>>

UpdateDiagnostics ==
  /\ pc = "collected"
  /\ diagnostics' = filterErrorsByConfig(errors, config)
  /\ pc' = "published"
  /\ UNCHANGED <<text, sections, idx, sectionStack, errors, config, output, returned,
               eventLoop, extensionHost>>

NextDocument ==
  \/ ValidateMustache
  \/ SkipRender
  \/ RenderTemplate
  \/ ValidateJSONOutput
  \/ UpdateDiagnostics

SpecDocument == InitDocument /\ [][NextDocument]_vars

(***************************************************************************)
(* C15: the defect list of a validation run is sorted ascending by         *)
(* (line, column): the list MustacheValidator.validate returns, and the    *)
(* combined list validateDocument hands to updateDiagnostics.              *)
(***************************************************************************)
Sorted(es) == \A i, j \in 1..Len(es) : i < j => ~ErrorBefore(es[j], es[i])

C15_DefectListSorted ==
  /\ pc = "mustacheValidated" => Sorted(errors)
  /\ pc = "collected" => Sorted(errors)

(***************************************************************************)
(* C19: for a text above the size ceiling, validateDocument publishes      *)
(* exactly one defect, the 'too large' Warning at line 1, column 0, and    *)
(* the text is neither scanned by a pass nor rendered.                     *)
(***************************************************************************)
C19_TooLargeNotScanned ==
  /\ []((pc = "published" /\ ~isFileSizeAcceptable(text)) => diagnostics = <<fileTooLarge>>)
  /\ [][~isFileSizeAcceptable(text) => ~RenderTemplate]_vars

(***************************************************************************)
(* BaseValidator.deduplicateErrors.  The key of a defect is the string     *)
(* `${line}:${column}:${message}:${severity}`; here the messages are       *)
(* sequences of characters, so that the key is built as the code builds    *)
(* it.                                                                     *)
(***************************************************************************)
DigitChars == <<"0","1","2","3","4","5","6","7","8","9">>

(* String(n) of a non-negative integer *)
RECURSIVE numberText(_)
numberText(n) ==
  IF n < 10 THEN <<DigitChars[n + 1]>>
  ELSE numberText(n \div 10) \o <<DigitChars[(n % 10) + 1]>>

severityText(severity) ==
  CASE severity = "error"   -> <<"e","r","r","o","r">>
    [] severity = "warning" -> <<"w","a","r","n","i","n","g">>
    [] severity = "info"    -> <<"i","n","f","o">>
    [] severity = "hint"    -> <<"h","i","n","t">>

errorKey(error) ==
  numberText(error.line) \o <<":">> \o numberText(error.column) \o <<":">>
  \o error.message \o <<":">> \o severityText(error.severity)

(* Mutant of dedupStep: the key leaves the message out. *)
dedupStepByPosition(st, error) ==
  LET key == numberText(error.line) \o <<":">> \o numberText(error.column) \o <<":">>
             \o severityText(error.severity)
  IN IF key \in st.seen THEN st
     ELSE [seen |-> st.seen \cup {key}, deduplicated |-> Append(st.deduplicated, error)]

(* The body of the for loop; a state is [seen, deduplicated]. *)
dedupStep(st, error) ==
  IF errorKey(error) \in st.seen THEN st
  ELSE [seen |-> st.seen \cup {errorKey(error)},
        deduplicated |-> Append(st.deduplicated, error)]

RECURSIVE dedupAll(_, _)
dedupAll(st, es) ==
  IF Len(es) = 0 THEN st ELSE dedupAll(dedupStep(st, Head(es)), Tail(es))

deduplicateErrors(es) == dedupAll([seen |-> {}, deduplicated |-> <<>>], es).deduplicated

(***************************************************************************)
(* deduplicateErrors on the lists of mergeValidationResults: allErrors is  *)
(* errors and the list it returns is returned; it is then applied to the   *)
(* list it returned.                                                       *)
(***************************************************************************)
MaxErrors == 3

DedupMessages == { <<"a">>, <<"a", ":", "e", "r", "r", "o", "r">>, <<"0", ":", "a">> }

DedupDefects ==
  { createValidationError(m, l, c, s, NoLength, code) :
      m \in DedupMessages, l \in {1, 10}, c \in {0},
      s \in {"error", "warning"}, code \in {MUSTACHE_SYNTAX_ERROR, JSON_SYNTAX_ERROR} }

RECURSIVE ListsOf(_, _)
ListsOf(S, n) ==
  IF n = 0 THEN {<<>>}
  ELSE LET shorter == ListsOf(S, n - 1)
       IN shorter \cup {Append(l, x) : l \in shorter, x \in S}

InitDedup ==
  /\ text = <<>>
  /\ pc = "deduplicate"
  /\ sections = <<>>
  /\ idx = 0
  /\ sectionStack = <<>>
  /\ errors \in ListsOf(DedupDefects, MaxErrors)
  /\ config = [showWarnings |-> TRUE, showHints |-> TRUE, validateJsonOutput |-> TRUE]
  /\ output = <<>>
  /\ diagnostics = <<>>
  /\ returned = <<>>
  /\ EventLoopIdle
  /\ ExtensionHostIdle

Deduplicate ==
  /\ pc = "deduplicate"
  /\ returned' = deduplicateErrors(errors)
  /\ pc' = "deduplicated"
  /\ UNCHANGED <<text, sections, idx, sectionStack, errors, config, output, diagnostics,
               eventLoop, extensionHost>>

DeduplicateAgain ==
  /\ pc = "deduplicated"
  /\ errors' = returned
  /\ returned' = deduplicateErrors(returned)
  /\ pc' = "deduplicatedAgain"
  /\ UNCHANGED <<text, sections, idx, sectionStack, config, output, diagnostics,
               eventLoop, extensionHost>>

NextDedup ==
  \/ Deduplicate
  \/ DeduplicateAgain

SpecDedup == InitDedup /\ [][NextDedup]_vars

(* Two defects are the same for deduplication. *)
SameDefect(a, b) ==
  /\ a.line = b.line /\ a.column = b.column
  /\ a.message = b.message /\ a.severity = b.severity

FirstOccurrence(es, i) == \A j \in 1..(i - 1) : ~SameDefect(es[j], es[i])

RECURSIVE Restrict(_, _)
Restrict(es, n) ==
  IF n = 0 THEN <<>>
  ELSE IF FirstOccurrence(es, n) THEN Append(Restrict(es, n - 1), es[n])
  ELSE Restrict(es, n - 1)

(***************************************************************************)
(* C16: deduplicateErrors returns its input without the defects that have  *)
(* the (line, column, message, severity) of an earlier one: the first      *)
(* occurrences survive, in input order, defects at one position with       *)
(* different messages are all kept, and a second application changes       *)
(* nothing.                                                                *)
(***************************************************************************)
C16_DeduplicateFirstWins ==
  /\ pc = "deduplicated" =>
       /\ returned = Restrict(errors, Len(errors))
       /\ \A i, j \in 1..Len(errors) :
            (/\ i < j
             /\ errors[i].line = errors[j].line /\ errors[i].column = errors[j].column
             /\ errors[i].message # errors[j].message
             /\ FirstOccurrence(errors, i) /\ FirstOccurrence(errors, j))
            => \E h, k \in 1..Len(returned) :
                 h < k /\ returned[h] = errors[i] /\ returned[k] = errors[j]
  /\ pc = "deduplicatedAgain" => returned = errors

C16_Witness ==
  /\ pc = "deduplicated"
  /\ Len(errors) = 3 /\ Len(returned) = 2
  /\ SameDefect(errors[1], errors[3]) /\ errors[1].code # errors[3].code
  /\ errors[1].line = errors[2].line /\ errors[1].column = errors[2].column
  /\ errors[1].message # errors[2].message

(***************************************************************************)
(* filterErrorsByConfig as updateDiagnostics applies it: errors is the     *)
(* list handed over, config the configuration read, diagnostics the list   *)
(* published.                                                              *)
(***************************************************************************)
FilterDefects ==
  { createValidationError(m, l, 0, s, NoLength, MUSTACHE_SYNTAX_ERROR) :
      m \in {<<"a">>, <<"b">>}, l \in {1, 2},
      s \in {"error", "warning", "info", "hint"} }

InitFilter ==
  /\ text = <<>>
  /\ pc = "updateDiagnostics"
  /\ sections = <<>>
  /\ idx = 0
  /\ sectionStack = <<>>
  /\ errors \in ListsOf(FilterDefects, MaxErrors)
  /\ config \in Configs
  /\ output = <<>>
  /\ diagnostics = <<>>
  /\ returned = <<>>
  /\ EventLoopIdle
  /\ ExtensionHostIdle

FilterByConfig ==
  /\ pc = "updateDiagnostics"
  /\ diagnostics' = filterErrorsByConfig(errors, config)
  /\ pc' = "filtered"
  /\ UNCHANGED <<text, sections, idx, sectionStack, errors, config, output, returned,
               eventLoop, extensionHost>>

NextFilter == FilterByConfig

SpecFilter == InitFilter /\ [][NextFilter]_vars

(* The defects the configuration lets through, as the claim states them. *)
Kept(error, cfg) ==
  /\ error.severity = "warning" => cfg.showWarnings
  /\ error.severity = "hint" => cfg.showHints

RECURSIVE KeptOf(_, _)
KeptOf(es, cfg) ==
  IF Len(es) = 0 THEN <<>>
  ELSE IF Kept(Head(es), cfg) THEN <<Head(es)>> \o KeptOf(Tail(es), cfg)
  ELSE KeptOf(Tail(es), cfg)

(***************************************************************************)
(* C17: filterErrorsByConfig returns a subsequence of its input in input   *)
(* order; every Error and every Info is kept whatever showWarnings and     *)
(* showHints are, a Warning is dropped iff showWarnings is false and a     *)
(* Hint iff showHints is false.                                            *)
(***************************************************************************)
C17_FilterBySeverity ==
  pc = "filtered" =>
    /\ diagnostics = KeptOf(errors, config)
    /\ \A s \in {"error", "info"} :
         SelectSeq(diagnostics, LAMBDA e : e.severity = s)
           = SelectSeq(errors, LAMBDA e : e.severity = s)
    /\ SelectSeq(diagnostics, LAMBDA e : e.severity = "warning")
         = IF config.showWarnings
           THEN SelectSeq(errors, LAMBDA e : e.severity = "warning") ELSE <<>>
    /\ SelectSeq(diagnostics, LAMBDA e : e.severity = "hint")
         = IF config.showHints
           THEN SelectSeq(errors, LAMBDA e : e.severity = "hint") ELSE <<>>

C17_Witness ==
  /\ pc = "filtered"
  /\ ~config.showWarnings /\ config.showHints
  /\ Len(errors) = 3 /\ Len(diagnostics) = 2
  /\ errors[1].severity = "hint" /\ errors[2].severity = "warning"
  /\ errors[3].severity = "info"
  /\ diagnostics = <<errors[1], errors[3]>>

(***************************************************************************)
(* BaseValidator.validateWithTiming on the event loop.  A job runs to      *)
(* completion; the microtask queue is emptied before the event loop takes  *)
(* the next macrotask, and the callback of setTimeout is a macrotask.      *)
(* validate is MustacheValidator.validate: it runs synchronously up to its *)
(* first await, and each await resumes it from the microtask queue.  The   *)
(* time a pass takes is chosen from PassTimes.                             *)
(***************************************************************************)
MAX_VALIDATION_TIME_MS == 5000
MaxTimingPieces == 2
MaxPassSteps == 2

PassTimes == { k * (MAX_VALIDATION_TIME_MS \div 2) : k \in 0..MaxPassSteps }

NoCode == ""              \* code: undefined

(* the Error of the catch branch for the rejection of the timer *)
validationTimeout ==
  createValidationError(<<"Validation failed", "Validation timeout after",
                          MAX_VALIDATION_TIME_MS, "ms">>,
                        1, 0, "error", NoLength, NoCode)

(* createValidationResult, with the processing time validateWithTiming     *)
(* writes over it                                                          *)
createValidationResult(es, processingTime) ==
  [errors |-> es, isValid |-> ~HasError(es), processingTime |-> processingTime]

InitTiming ==
  /\ text \in TextsOf(ValidatePieces, MaxTimingPieces)
  /\ pc = "validateWithTiming"
  /\ sections = <<>>
  /\ idx = 0
  /\ sectionStack = <<>>
  /\ errors = <<>>
  /\ EditorIdle

(* Promise.race([this.validate(text, document), this.createTimeoutPromise()]): *)
(* validate runs up to its first await (size check, parseTemplate, the     *)
(* syntax pass called by syntaxValidator.validate), then the timer is set, *)
(* then validateWithTiming awaits the race.                                *)
CallValidate ==
  \E spent \in PassTimes :
    /\ pc = "validateWithTiming"
    /\ sections' = IF isFileSizeAcceptable(text) THEN parseTemplate(text) ELSE sections
    /\ errors' = IF isFileSizeAcceptable(text) THEN syntaxValidateSync(text)
                 ELSE <<fileTooLarge>>
    /\ microtasks' = IF isFileSizeAcceptable(text) THEN <<"section">> ELSE <<"settle">>
    /\ clock' = clock + spent
    /\ timer' = [state |-> "armed", due |-> clock' + MAX_VALIDATION_TIME_MS]
    /\ pc' = "awaiting"
    /\ UNCHANGED <<text, idx, sectionStack, config, output, diagnostics, returned, extensionHost>>

(* validate resumes after await this.syntaxValidator.validate: the section *)
(* pass runs inside sectionValidator.validate                              *)
ResumeSection ==
  \E spent \in PassTimes :
    /\ microtasks # <<>> /\ Head(microtasks) = "section"
    /\ errors' = errors \o sectionValidateSync(sections, text)
    /\ clock' = clock + spent
    /\ microtasks' = Tail(microtasks) \o <<"compilation">>
    /\ UNCHANGED <<text, pc, sections, idx, sectionStack, config, output, diagnostics,
                   returned, timer, extensionHost>>

(* validate resumes after await this.sectionValidator.validate, checks the *)
(* compilation, sorts and returns: its promise is fulfilled                *)
ResumeCompilation ==
  \E spent \in PassTimes :
    /\ microtasks # <<>> /\ Head(microtasks) = "compilation"
    /\ errors' = sortErrors(errors \o validateCompilation(text))
    /\ clock' = clock + spent
    /\ microtasks' = Tail(microtasks) \o <<"settle">>
    /\ UNCHANGED <<text, pc, sections, idx, sectionStack, config, output, diagnostics,
                   returned, timer, extensionHost>>

(* the reaction of Promise.race to the promise of validate: the race is    *)
(* settled by the first of its promises to settle                          *)
SettleRace ==
  /\ microtasks # <<>> /\ Head(microtasks) = "settle"
  /\ pc = "awaiting"
  /\ pc' = "settled"
  /\ microtasks' = Tail(microtasks) \o <<"resume">>
  /\ UNCHANGED <<text, sections, idx, sectionStack, errors, config, output, diagnostics,
                 returned, clock, timer, extensionHost>>

(* validateWithTiming resumes after await Promise.race with the result of  *)
(* validate                                                                *)
ReturnResult ==
  /\ microtasks # <<>> /\ Head(microtasks) = "resume"
  /\ pc = "settled"
  /\ returned' = createValidationResult(errors, clock)
  /\ pc' = "returned"
  /\ microtasks' = Tail(microtasks)
  /\ UNCHANGED <<text, sections, idx, sectionStack, errors, config, output, diagnostics,
                 clock, timer, extensionHost>>

(* nothing to run: the event loop waits until the timer is due *)
WaitForTimer ==
  /\ microtasks = <<>>
  /\ timer.state = "armed" /\ clock < timer.due
  /\ clock' = timer.due
  /\ UNCHANGED <<text, pc, sections, idx, sectionStack, errors, config, output,
                 diagnostics, returned, timer, microtasks, extensionHost>>

(* the callback of setTimeout, a macrotask: reject(new Error(...)).  A     *)
(* race still pending is rejected and validateWithTiming returns from its  *)
(* catch branch; a settled race ignores the rejection.                     *)
TimerFires ==
  /\ microtasks = <<>>
  /\ timer.state = "armed" /\ clock >= timer.due
  /\ timer' = [timer EXCEPT !.state = "fired"]
  /\ IF pc = "awaiting"
     THEN /\ returned' = createValidationResult(<<validationTimeout>>, clock)
          /\ pc' = "timedOut"
     ELSE UNCHANGED <<returned, pc>>
  /\ UNCHANGED <<text, sections, idx, sectionStack, errors, config, output, diagnostics,
                 clock, microtasks, extensionHost>>

NextTiming ==
  \/ CallValidate
  \/ ResumeSection
  \/ ResumeCompilation
  \/ SettleRace
  \/ ReturnResult
  \/ WaitForTimer
  \/ TimerFires

SpecTiming == InitTiming /\ [][NextTiming]_vars

(***************************************************************************)
(* C20: whenever the validation of a text has taken longer than            *)
(* MAX_VALIDATION_TIME_MS, validateWithTiming returns the single           *)
(* 'Validation timeout' Error at line 1, column 0 with isValid false, and  *)
(* not the late result of validate.                                        *)
(***************************************************************************)
C20_TimeoutDiscardsLateResult ==
  (pc \in {"returned", "timedOut"} /\ returned.processingTime > MAX_VALIDATION_TIME_MS)
    => /\ returned.errors = <<validationTimeout>>
       /\ ~returned.isValid

(***************************************************************************)
(* MustacheValidator.validateSync with the state of the shared regex       *)
(* MUSTACHE_PATTERNS.UNCLOSED_TAG.  re.exec(line) of a global regex        *)
(* searches from re.lastIndex on; a match leaves lastIndex at its end, a   *)
(* failure leaves it at 0.                                                 *)
(***************************************************************************)
exec(re, line, lastIndex) ==
  LET ms == ExecFirst(re, line, lastIndex)
  IN IF Len(ms) = 0 THEN [found |-> FALSE, index |-> -1, lastIndex |-> 0]
     ELSE [found |-> TRUE, index |-> ms[1].index, lastIndex |-> ms[1].e]

unclosedTagError(lineNumber, index) ==
  createValidationError(<<"Unclosed Mustache tag - missing closing }}">>,
                        lineNumber, index, "error", 2, UNCLOSED_TAG_CODE)

(* while ((match = MUSTACHE_PATTERNS.UNCLOSED_TAG.exec(line)) !== null) *)
RECURSIVE unclosedTagLoop(_, _, _)
unclosedTagLoop(line, lineNumber, lastIndex) ==
  LET match == exec(UNCLOSED_TAG, line, lastIndex)
  IN IF ~match.found THEN [errors |-> <<>>, lastIndex |-> match.lastIndex]
     ELSE LET rest == unclosedTagLoop(line, lineNumber, match.lastIndex)
          IN [errors |-> <<unclosedTagError(lineNumber, match.index)>> \o rest.errors,
              lastIndex |-> rest.lastIndex]

(* Mutant of unclosedTagLine: one exec per line and no reset of lastIndex. *)
unclosedTagLineOnce(line, lineNumber, lastIndex) ==
  LET match == exec(UNCLOSED_TAG, line, lastIndex)
  IN [errors |-> IF match.found THEN <<unclosedTagError(lineNumber, match.index)>>
                 ELSE <<>>,
      lastIndex |-> match.lastIndex]

(* the body of the for loop of checkUnclosedTags: the while loop, then     *)
(* MUSTACHE_PATTERNS.UNCLOSED_TAG.lastIndex = 0                            *)
unclosedTagLine(line, lineNumber, lastIndex) ==
  [errors |-> unclosedTagLoop(line, lineNumber, lastIndex).errors, lastIndex |-> 0]

RECURSIVE checkUnclosedTagsFrom(_, _, _)
checkUnclosedTagsFrom(lines, i, lastIndex) ==
  IF i > Len(lines) THEN [errors |-> <<>>, lastIndex |-> lastIndex]
  ELSE LET here == unclosedTagLine(lines[i], i, lastIndex)
           rest == checkUnclosedTagsFrom(lines, i + 1, here.lastIndex)
       IN [errors |-> here.errors \o rest.errors, lastIndex |-> rest.lastIndex]

(* line.match(MUSTACHE_PATTERNS.UNCLOSED_TAG) of findErrorLocationInText   *)
(* runs when Mustache.parse threw an "Unclosed ..." message; match with a  *)
(* global regex starts from lastIndex 0 and leaves it at 0.                *)
lastIndexAfterCompilation(parsed, lastIndex) ==
  IF ~parsed.ok /\ parsed.message[1] \in {"Unclosed tag", "Unclosed section"}
  THEN 0 ELSE lastIndex

validateSyncWith(t, unclosed) ==
  [errors |-> sortErrors(sortErrors(unclosed.errors \o checkMalformedTags(t)
                                    \o checkInvalidTagNames(t) \o checkNestedTags(t)
                                    \o checkUnbalancedBraces(t))
                         \o validateCompilation(t)),
   lastIndex |-> lastIndexAfterCompilation(MustacheParse(t), unclosed.lastIndex)]

(* MustacheValidator.validateSync(t), called with the regex at lastIndex *)
validateSyncFrom(t, lastIndex) ==
  validateSyncWith(t, checkUnclosedTagsFrom(split(t), 1, lastIndex))

(***************************************************************************)
(* Calls of validateSync on one validator: the text is validated, then any *)
(* number of other texts, then the text again.  returned is the result of  *)
(* the first call, errors the result of the latest call on the text, idx   *)
(* the number of calls on other texts.                                     *)
(***************************************************************************)
MaxSyncPieces == 2
MaxOtherPieces == 1
MaxOtherCalls == 2

SyncPieces == { <<"{", "{">>, <<"{", "{", "a", "}", "}">>, <<"{", "{", "#", "a", "}", "}">>,
                <<"a">>, <<NL>> }

InitSync ==
  /\ text \in TextsOf(SyncPieces, MaxSyncPieces)
  /\ pc = "validateSync"
  /\ sections = <<>>
  /\ idx = 0
  /\ sectionStack = <<>>
  /\ errors = <<>>
  /\ EditorIdle

SyncCall(result, then) ==
  /\ errors' = result.errors
  /\ returned' = IF then = "validated" THEN result.errors ELSE returned
  /\ unclosedTagLastIndex' = result.lastIndex
  /\ pc' = then
  /\ UNCHANGED <<text, sections, idx, sectionStack, config, output, diagnostics, eventLoop,
                 renderCache, documents, validationTimers, timeouts, validations, published,
                 activeTextEditor>>

FirstValidateSync ==
  /\ pc = "validateSync"
  /\ SyncCall(validateSyncFrom(text, unclosedTagLastIndex), "validated")

OtherValidateSync ==
  \E other \in TextsOf(SyncPieces, MaxOtherPieces) :
    /\ pc = "validated"
    /\ idx < MaxOtherCalls
    /\ unclosedTagLastIndex' = validateSyncFrom(other, unclosedTagLastIndex).lastIndex
    /\ idx' = idx + 1
    /\ UNCHANGED <<text, pc, sections, sectionStack, errors, config, output, diagnostics,
                   returned, eventLoop, renderCache, documents, validationTimers, timeouts,
                   validations, published,
                 activeTextEditor>>

SecondValidateSync ==
  /\ pc = "validated"
  /\ SyncCall(validateSyncFrom(text, unclosedTagLastIndex), "validatedAgain")

NextSync ==
  \/ FirstValidateSync
  \/ OtherValidateSync
  \/ SecondValidateSync

SpecSync == InitSync /\ [][NextSync]_vars

(***************************************************************************)
(* C21: two calls of validateSync on one text return the same defect list  *)
(* (positions, messages, severities, order) whatever texts were validated  *)
(* in between, and the shared regex UNCLOSED_TAG is at lastIndex 0 between *)
(* calls.                                                                  *)
(***************************************************************************)
C21_ValidateSyncPure ==
  /\ unclosedTagLastIndex = 0
  /\ pc = "validatedAgain" => errors = returned
  /\ pc \in {"validated", "validatedAgain"} =>
       errors = sortErrors(syntaxValidateSync(text) \o validateCompilation(text))

C21_Witness ==
  /\ pc = "validatedAgain"
  /\ idx > 0
  /\ \E k \in 1..Len(errors) : errors[k].code = UNCLOSED_TAG_CODE /\ errors[k].column > 0

(***************************************************************************)
(* validateSectionNesting as a state machine over the sections of deeply   *)
(* nested templates: one section tag per line, MaxNesting openers at most, *)
(* named a and b in turn, then closers of the innermost sections, then     *)
(* openers again.  sectionStack is the stack of the pass, idx the section  *)
(* scanned next; returned holds the defects of validateSectionMatching.    *)
(***************************************************************************)
MaxNesting == 12
MaxReopened == 2

NestName(i) == IF i % 2 = 1 THEN "a" ELSE "b"

TagLine(sigil, name) == <<"{", "{", sigil, name, "}", "}", NL>>

(* openers of the levels from..to, outermost first *)
RECURSIVE OpenerLines(_, _, _)
OpenerLines(sigil, from, to) ==
  IF from > to THEN <<>> ELSE TagLine(sigil, NestName(from)) \o OpenerLines(sigil, from + 1, to)

(* closers of the levels from..to, innermost first *)
RECURSIVE CloserLines(_, _)
CloserLines(from, to) ==
  IF from > to THEN <<>> ELSE TagLine("/", NestName(to)) \o CloserLines(from, to - 1)

NestingTexts ==
  { OpenerLines(sigil, 1, opened) \o CloserLines(opened - closed + 1, opened)
      \o OpenerLines(sigil, opened - closed + 1, opened - closed + reopened) :
      sigil \in {"#", "^"}, opened \in 0..MaxNesting,
      closed \in 0..(MaxNesting + 1), reopened \in 0..MaxReopened }

InitNesting ==
  /\ text \in NestingTexts
  /\ pc = "parse"
  /\ sections = <<>>
  /\ idx = 0
  /\ sectionStack = <<>>
  /\ errors = <<>>
  /\ EditorIdle

ParseNesting ==
  /\ pc = "parse"
  /\ sections' = parseTemplate(text)
  /\ idx' = 1
  /\ pc' = "nesting"
  /\ UNCHANGED <<editor, text, sectionStack, errors>>

NestStep(st) ==
  /\ sectionStack' = st.stack
  /\ errors' = st.errors
  /\ idx' = idx + 1
  /\ UNCHANGED <<editor, text, pc, sections>>

NestOpening ==
  /\ pc = "nesting" /\ idx <= Len(sections)
  /\ IsOpening(sections[idx])
  /\ NestStep(nestSection([stack |-> sectionStack, errors |-> errors], sections[idx]))

NestClosing ==
  /\ pc = "nesting" /\ idx <= Len(sections)
  /\ IsClosing(sections[idx])
  /\ NestStep(nestSection([stack |-> sectionStack, errors |-> errors], sections[idx]))

(* the pass returns; the matching pass of validateSync on the same sections *)
NestingDone ==
  /\ pc = "nesting" /\ idx > Len(sections)
  /\ returned' = validateSectionMatching(sections)
  /\ pc' = "nested"
  /\ UNCHANGED <<text, sections, idx, sectionStack, errors, config, output, diagnostics,
                 eventLoop, extensionHost>>

NextNesting ==
  \/ ParseNesting
  \/ NestOpening
  \/ NestClosing
  \/ NestingDone

SpecNesting == InitNesting /\ [][NextNesting]_vars

(* the number of frames on the stack when section i is scanned *)
RECURSIVE FramesAt(_, _)
FramesAt(secs, i) ==
  IF i <= 1 THEN 0
  ELSE LET before == FramesAt(secs, i - 1)
       IN IF IsOpening(secs[i - 1]) THEN before + 1
          ELSE IF IsClosing(secs[i - 1]) /\ before > 0 THEN before - 1
          ELSE before

(* the opener whose frame is on top of the stack when closer i is scanned *)
TopOpenerAt(secs, i) ==
  CHOOSE j \in 1..(i - 1) :
    /\ IsOpening(secs[j]) /\ FramesAt(secs, j) = FramesAt(secs, i) - 1
    /\ \A h \in (j + 1)..(i - 1) :
         ~(IsOpening(secs[h]) /\ FramesAt(secs, h) = FramesAt(secs, i) - 1)

DefectsAt(es, section, severity) ==
  {k \in 1..Len(es) :
     es[k].severity = severity /\ At(es[k], section.startLine, section.startColumn)}

(***************************************************************************)
(* C22: validateSectionNesting reports an opener with one 'nesting too     *)
(* deep' Warning exactly when 10 or more frames are on the stack as it is  *)
(* scanned (the 10th nested opener gets none), never with an Error; the    *)
(* frame is pushed all the same, and the matching pass has no defect for a *)
(* correctly named closer, whatever its depth.                             *)
(***************************************************************************)
C22_NestingTooDeep ==
  pc \in {"nesting", "nested"} =>
    /\ \A k \in 1..Len(errors) : errors[k].severity # "error"
    /\ \A i \in 1..(idx - 1) :
         IsOpening(sections[i]) =>
           Cardinality(DefectsAt(errors, sections[i], "warning"))
             = IF FramesAt(sections, i) >= 10 THEN 1 ELSE 0
    /\ Cardinality({k \in 1..Len(errors) : errors[k].severity = "warning"})
         = Cardinality({i \in 1..(idx - 1) :
                          IsOpening(sections[i]) /\ FramesAt(sections, i) >= 10})
    /\ Len(sectionStack) = FramesAt(sections, idx)
    /\ pc = "nested" =>
         \A i \in 1..Len(sections) :
           (/\ IsClosing(sections[i]) /\ FramesAt(sections, i) > 0
            /\ sections[TopOpenerAt(sections, i)].name = sections[i].name)
           => \A k \in 1..Len(returned) :
                ~At(returned[k], sections[i].startLine, sections[i].startColumn)

C22_Witness ==
  /\ pc = "nested"
  /\ \E i \in 1..Len(sections) :
       /\ IsOpening(sections[i]) /\ FramesAt(sections, i) = 9
       /\ DefectsAt(errors, sections[i], "warning") = {}
  /\ \E i \in 1..Len(sections) :
       /\ IsOpening(sections[i]) /\ FramesAt(sections, i) = 11
       /\ Cardinality(DefectsAt(errors, sections[i], "warning")) = 1
  /\ \E i \in 1..Len(sections) : IsClosing(sections[i]) /\ FramesAt(sections, i) = 12
  /\ returned = <<>>

(***************************************************************************)
(* validateSectionNesting on the sections of short templates with several  *)
(* section tags of one name on a line.                                     *)
(***************************************************************************)
MaxSameNamePieces == 5

SameNamePieces ==
  { <<"{","{","#","a","}","}">>, <<"{","{","^","a","}","}">>, <<"{","{","#","b","}","}">>,
    <<"{","{","/","a","}","}">>, <<NL>> }

InitSameName ==
  /\ text \in TextsOf(SameNamePieces, MaxSameNamePieces)
  /\ pc = "parse"
  /\ sections = <<>>
  /\ idx = 0
  /\ sectionStack = <<>>
  /\ errors = <<>>
  /\ EditorIdle

SpecSameName == InitSameName /\ [][NextNesting]_vars

Hints(es) == SelectSeq(es, LAMBDA e : e.severity = "hint")

(***************************************************************************)
(* C23: on the sections of a text, validateSectionNesting emits the        *)
(* same-name Hint for an opener if and only if some frame on the stack at  *)
(* that moment has the opener's name and another start line; frames of the *)
(* name that all start on the opener's own line give no Hint.              *)
(***************************************************************************)
C23_SameNameHint ==
  [][NestOpening =>
       IF \E f \in 1..Len(sectionStack) :
            /\ sectionStack[f].section.name = sections[idx].name
            /\ sectionStack[f].section.startLine # sections[idx].startLine
       THEN /\ Len(Hints(errors')) = Len(Hints(errors)) + 1
            /\ At(errors'[Len(errors')], sections[idx].startLine, sections[idx].startColumn)
            /\ errors'[Len(errors')].severity = "hint"
       ELSE Hints(errors') = Hints(errors)]_vars

C23_Witness ==
  /\ pc = "nested"
  /\ Len(sectionStack) = 3
  /\ \A f \in 1..3 : sectionStack[f].section.name = "a"
  /\ sectionStack[1].section.startLine = sectionStack[2].section.startLine
  /\ sectionStack[3].section.startLine # sectionStack[1].section.startLine
  /\ Len(Hints(errors)) = 1
  /\ At(Hints(errors)[1], sectionStack[3].section.startLine,
        sectionStack[3].section.startColumn)

(***************************************************************************)
(* BaseValidator.getTextPosition, and the round trip through               *)
(* getLineColumnFromPosition.  idx is the offset asked for, returned the   *)
(* location found and then the position computed back from it.            *)
(***************************************************************************)
(* for (let i = 0; i < Math.min(line - 1, lines.length); i++)             *)
(*   position += lines[i].length + 1                                      *)
RECURSIVE lineStart(_, _, _)
lineStart(lines, i, last) ==
  IF i > last \/ i > Len(lines) THEN 0
  ELSE Len(lines[i]) + 1 + lineStart(lines, i + 1, last)

(* Mutant of getTextPosition: the newline at the end of a line is not      *)
(* counted.                                                                *)
getTextPositionWithoutNewlines(t, line, column) ==
  lineStart(split(t), 1, line - 1) - (line - 1) + column

getTextPosition(t, line, column) == lineStart(split(t), 1, line - 1) + column

MaxPositionPieces == 5
MaxPastEnd == 2

PositionPieces == { <<"a">>, <<NL>> }

InitPosition ==
  /\ text \in TextsOf(PositionPieces, MaxPositionPieces)
  /\ pc = "position"
  /\ sections = <<>>
  /\ idx \in 0..(MaxPositionPieces + MaxPastEnd)
  /\ idx <= Len(text) + MaxPastEnd
  /\ sectionStack = <<>>
  /\ errors = <<>>
  /\ EditorIdle

LineColumnFromPosition ==
  /\ pc = "position"
  /\ returned' = getLineColumnFromPosition(text, idx)
  /\ pc' = "located"
  /\ UNCHANGED <<text, sections, idx, sectionStack, errors, config, output, diagnostics,
                 eventLoop, extensionHost>>

TextPosition ==
  /\ pc = "located"
  /\ returned' = [line |-> returned.line, column |-> returned.column,
                  position |-> getTextPosition(text, returned.line, returned.column)]
  /\ pc' = "positioned"
  /\ UNCHANGED <<text, sections, idx, sectionStack, errors, config, output, diagnostics,
                 eventLoop, extensionHost>>

NextPosition ==
  \/ LineColumnFromPosition
  \/ TextPosition

SpecPosition == InitPosition /\ [][NextPosition]_vars

(* the offset clamped to the end of the text *)
Clamped(t, offset) == IF offset < Len(t) THEN offset ELSE Len(t)

NewlinesBefore(t, offset) == {j \in 1..offset : t[j] = NL}

(***************************************************************************)
(* C24: getLineColumnFromPosition returns line = 1 + the number of newline *)
(* characters strictly before the offset and column = the number of        *)
(* characters since the last of them (or the start of the text), with an   *)
(* offset at or past the end of the text clamped to the end; and           *)
(* getTextPosition of the line and column returned is the clamped offset.  *)
(***************************************************************************)
C24_LineColumnRoundTrip ==
  pc \in {"located", "positioned"} =>
    LET offset == Clamped(text, idx)
        newlines == NewlinesBefore(text, offset)
    IN /\ returned.line = 1 + Cardinality(newlines)
       /\ \A j \in newlines : j <= offset - returned.column
       /\ returned.column = offset \/ (offset - returned.column) \in newlines
       /\ returned.column >= 0
       /\ pc = "positioned" => returned.position = offset

C24_Witness ==
  /\ pc = "positioned"
  /\ idx > Len(text)
  /\ returned.line = 3 /\ returned.column = 1
  /\ returned.position = Len(text)

(***************************************************************************)
(* TemplateEngine.renderTemplate(template) with its cache, as              *)
(* validateDocument calls it: without a context argument.  The key is made *)
(* of the template, JSON.stringify(context || {}) and                      *)
(* JSON.stringify(options || {}), both "{}" here; the hash of the key is   *)
(* taken to be free of collisions.  The context rendered with is the       *)
(* content of config.contextFile, named by its path ("" when none is set); *)
(* a result records the template and the context it was rendered from.     *)
(***************************************************************************)
CACHE_TTL == 5 * 60 * 1000

generateCacheKey(template) == <<Len(template), template \o <<"{", "}">> \o <<"{", "}">>>>

NotRendered == [rendered |-> FALSE, success |-> FALSE, template |-> <<>>, context |-> ""]

(* the entries the lookup of renderTemplate accepts *)
cachedFor(cache, key, now) ==
  {entry \in cache : entry.key = key /\ now - entry.timestamp < CACHE_TTL}

(* this.renderCache.set(cacheKey, {result, timestamp: Date.now()}) *)
cacheSet(cache, key, result, now) ==
  {entry \in cache : entry.key # key}
    \cup {[key |-> key, result |-> result, timestamp |-> now]}

(* Mutant of renderWithCache: the context file is part of the key. *)
renderWithCacheByContext(template, contextFile, cache, now) ==
  LET key == <<generateCacheKey(template), contextFile>>
      hit == cachedFor(cache, key, now)
      fresh == [rendered |-> TRUE, success |-> TRUE, template |-> template,
                context |-> contextFile]
  IN IF hit # {} THEN [result |-> (CHOOSE entry \in hit : TRUE).result, cache |-> cache]
     ELSE IF MustacheParse(template).ok
          THEN [result |-> fresh, cache |-> cacheSet(cache, key, fresh, now)]
          ELSE [result |-> [fresh EXCEPT !.success = FALSE], cache |-> cache]

(* renderTemplate: [result, cache] *)
renderWithCache(template, contextFile, cache, now) ==
  LET key == generateCacheKey(template)
      hit == cachedFor(cache, key, now)
      fresh == [rendered |-> TRUE, success |-> TRUE, template |-> template,
                context |-> contextFile]
  IN IF hit # {} THEN [result |-> (CHOOSE entry \in hit : TRUE).result, cache |-> cache]
     ELSE IF MustacheParse(template).ok
          THEN [result |-> fresh, cache |-> cacheSet(cache, key, fresh, now)]
          ELSE [result |-> [fresh EXCEPT !.success = FALSE], cache |-> cache]

(***************************************************************************)
(* The Select Context command on one open document: validations of the     *)
(* document (on save), time passing, the selection of another context file *)
(* and the re-validation of the open documents that selectContextFile      *)
(* awaits.  output is the render result the latest validation used.        *)
(***************************************************************************)
MaxClockSteps == 3

ContextFiles == {"", "c1.json", "c2.json"}

ContextTexts ==
  { <<"1">>, <<"{","{","a","}","}">>, <<"{","{","#","a","}","}">> }

ExtensionConfigs ==
  [showWarnings : {TRUE}, showHints : {TRUE}, validateJsonOutput : BOOLEAN,
   contextFile : ContextFiles, enableRealTimeValidation : BOOLEAN, debounceTime : {300}]

InitContext ==
  /\ text \in ContextTexts
  /\ pc = "idle"
  /\ sections = <<>>
  /\ idx = 0
  /\ sectionStack = <<>>
  /\ errors = <<>>
  /\ config \in ExtensionConfigs
  /\ output = NotRendered
  /\ diagnostics = <<>>
  /\ returned = <<>>
  /\ EventLoopIdle
  /\ ExtensionHostIdle

(* validateDocument up to the render: the Mustache validation, then the    *)
(* render when JSON output is validated and the template has no Error      *)
RenderForValidation(mustacheErrors, then) ==
  /\ errors' = mustacheErrors
  /\ IF config.validateJsonOutput /\ ~HasError(mustacheErrors)
     THEN LET r == renderWithCache(text, config.contextFile, renderCache, clock)
          IN output' = r.result /\ renderCache' = r.cache
     ELSE output' = NotRendered /\ renderCache' = renderCache
  /\ pc' = then
  /\ UNCHANGED <<text, sections, idx, sectionStack, config, diagnostics, returned, eventLoop,
                 unclosedTagLastIndex, documents, validationTimers, timeouts, validations,
                 published, activeTextEditor>>

ValidateOnSave ==
  /\ pc = "idle"
  /\ RenderForValidation(mustacheValidate(text), "idle")

AdvanceClock ==
  /\ pc = "idle"
  /\ clock < MaxClockSteps * (CACHE_TTL \div 2)
  /\ clock' = clock + (CACHE_TTL \div 2)
  /\ UNCHANGED <<text, pc, sections, idx, sectionStack, errors, config, output, diagnostics,
                 returned, timer, microtasks, extensionHost>>

(* selectContextFile: await configManager.setContextFile(path) *)
SelectContextFile ==
  \E path \in ContextFiles \ {""} :
    /\ pc = "idle"
    /\ path # config.contextFile
    /\ config' = [config EXCEPT !.contextFile = path]
    /\ pc' = "selected"
    /\ UNCHANGED <<text, sections, idx, sectionStack, errors, output, diagnostics, returned,
                   eventLoop, extensionHost>>

(* selectContextFile: await validateOpenDocuments() *)
RevalidateOpenDocuments ==
  /\ pc = "selected"
  /\ RenderForValidation(mustacheValidate(text), "revalidated")

NextContext ==
  \/ ValidateOnSave
  \/ AdvanceClock
  \/ SelectContextFile
  \/ RevalidateOpenDocuments

SpecContext == InitContext /\ [][NextContext]_vars

(***************************************************************************)
(* C25: the render used by the re-validation that follows the selection of *)
(* a new context file is computed from the newly selected context, never   *)
(* taken from a cache entry computed with the previous one.                *)
(***************************************************************************)
C25_RevalidatedWithNewContext ==
  (pc = "revalidated" /\ output.rendered /\ output.success)
    => output.context = config.contextFile

(***************************************************************************)
(* The extension host (extension.ts): documents that are opened, changed,  *)
(* saved and closed, the debounce timers of validateDocumentDelayed, the   *)
(* calls of validateDocument and the diagnostics they publish.             *)
(*                                                                         *)
(* A call of validateDocument runs to its end within one turn of the event *)
(* loop (all its awaits are settled by microtasks) unless renderTemplate   *)
(* misses the cache while a context file is configured: getContextFileInfo *)
(* then awaits vscode.workspace.fs.stat and readFile, and the call stays   *)
(* in `validations` until the file has been read.  The texts have no tags  *)
(* that read the context, so their render is MustacheRender of the text.   *)
(***************************************************************************)
OpenDelay == 100
ActiveEditorDelay == 200
MinDebounceTime == 100
DebounceTimes == {50, 300}

MaxTicks == 3
MaxVersion == 3
MaxInFlight == 1

HostTexts == { <<"]">>, <<"{","{","a">> }

HostConfigs ==
  [showWarnings : {TRUE}, showHints : {TRUE}, validateJsonOutput : {TRUE},
   contextFile : {"", "c1.json"}, enableRealTimeValidation : BOOLEAN,
   debounceTime : DebounceTimes]

Max(a, b) == IF a > b THEN a ELSE b

(* the number of texts the documents have had so far, all together *)
Versions(docs) == docs["d1"].version + docs["d2"].version

(* the smallest identity not in use: every call returns a new promise *)
FreshId(used) == CHOOSE i \in 1..(Cardinality(used) + 1) : i \notin used

(* A Timeout object, as setTimeout returns it, is the record of its        *)
(* document, the time it was set, the time it is due and the listener that *)
(* set it; validationTimers maps a URI to its Timeout, or to <<>>.         *)
(* clearValidationTimer on [timers |-> validationTimers, pending |-> timeouts] *)
clearValidationTimer(ts, uri) ==
  IF ts.timers[uri] # <<>>
  THEN [timers |-> [ts.timers EXCEPT ![uri] = <<>>],
        pending |-> ts.pending \ {ts.timers[uri][1]}]
  ELSE ts

setValidationTimer(ts, uri, delay, now, by) ==
  LET timeout == [uri |-> uri, due |-> now + delay, set |-> now, by |-> by]
  IN [timers |-> [ts.timers EXCEPT ![uri] = <<timeout>>],
      pending |-> ts.pending \cup {timeout}]

(* Mutant of validateDocumentDelayed: the existing timer is not cleared. *)
validateDocumentDelayedWithoutClear(ts, uri, delay, now, by) ==
  setValidationTimer(ts, uri, delay, now, by)

validateDocumentDelayed(ts, uri, delay, now, by) ==
  setValidationTimer(clearValidationTimer(ts, uri), uri, delay, now, by)

(* DiagnosticsProvider.updateDiagnostics: filterErrorsByConfig, then       *)
(* diagnosticsCollection.set; the entry remembers the version of the text  *)
(* the defects were computed from                                          *)
updateDiagnostics(pub, uri, version, es, cfg) ==
  [pub EXCEPT ![uri] = <<[version |-> version,
                          diagnostics |-> filterErrorsByConfig(es, cfg)]>>]

(* validateDocument after `await templateEngine.renderTemplate(text)` *)
renderedErrors(rendered, located) ==
  IF rendered.success /\ rendered.output # <<>> THEN jsonValidate(rendered.output, located)
  ELSE IF rendered.error # <<>> THEN <<renderingFailed(rendered.error)>>
  ELSE <<>>

(* What the validators and the renderer return for a text: the defects of  *)
(* mustacheValidator.validateWithTiming(text), the result of               *)
(* templateEngine.renderTemplate(text) and the defects validateDocument    *)
(* adds for it.  They are functions of the text alone, so `returned` holds *)
(* them for the texts of the documents, evaluated once.                    *)
validatorsReturn(m, rendered) ==
  [mustache |-> m, rendered |-> rendered,
   json |-> [located \in BOOLEAN |-> renderedErrors(rendered, located)]]

MustacheErrors == [t \in HostTexts |-> returned[t].mustache]

Rendered == [t \in HostTexts |-> returned[t].rendered]

RenderedErrors == [t \in HostTexts |-> returned[t].json]

(* renderTemplate after the context has been read: render, and cache a     *)
(* successful result                                                       *)
cacheRendered(cache, template, rendered, contextFile, now) ==
  IF rendered.success
  THEN cacheSet(cache, generateCacheKey(template),
                [rendered |-> TRUE, success |-> TRUE, template |-> template,
                 context |-> contextFile], now)
  ELSE cache

(* validateDocument(document) on hs = [published, validations, renderCache, *)
(* awaiting], from its call to its return or to the await of the context   *)
(* file; `rest` are the documents the caller validates after this one      *)
validateDocument(hs, uri, doc, rest, cfg, now, located) ==
  LET m == MustacheErrors[doc.text]
      rendered == Rendered[doc.text]
      found == m \o RenderedErrors[doc.text][located]
  IN IF ~(cfg.validateJsonOutput /\ ~HasError(m))
     THEN [hs EXCEPT !.published = updateDiagnostics(@, uri, doc.version, m, cfg)]
     ELSE IF cachedFor(hs.renderCache, generateCacheKey(doc.text), now) # {}
     THEN [hs EXCEPT !.published = updateDiagnostics(@, uri, doc.version, found, cfg)]
     ELSE IF cfg.contextFile = ""
     THEN [hs EXCEPT !.published = updateDiagnostics(@, uri, doc.version, found, cfg),
                     !.renderCache = cacheRendered(@, doc.text, rendered, "", now)]
     ELSE [hs EXCEPT !.validations =
                        @ \cup {[id |-> FreshId({v.id : v \in hs.validations}),
                                 uri |-> uri, version |-> doc.version, text |-> doc.text,
                                 errors |-> m, rest |-> rest]},
                     !.awaiting = TRUE]

(* validateOpenDocuments: for (const document of documents) await          *)
(* validateDocument(document)                                              *)
RECURSIVE validateEach(_, _, _, _, _, _)

validateEach(hs, uris, docs, cfg, now, located) ==
  IF uris = <<>> THEN hs
  ELSE LET after == validateDocument(hs, Head(uris), docs[Head(uris)], Tail(uris),
                                     cfg, now, located)
       IN IF after.awaiting THEN after
          ELSE validateEach(after, Tail(uris), docs, cfg, now, located)

(* vscode.workspace.textDocuments.filter(isMustacheDocument) *)
OpenUris(docs) ==
  SelectSeq(<<"d1", "d2">>, LAMBDA uri : docs[uri].open)

Host == [published |-> published, validations |-> validations,
         renderCache |-> renderCache, awaiting |-> FALSE]

validatorIdle ==
  <<text, pc, sections, idx, sectionStack, errors, output, diagnostics, returned, timer,
    microtasks, unclosedTagLastIndex>>

Timers == [timers |-> validationTimers, pending |-> timeouts]

SetHost(hs) ==
  /\ Cardinality(hs.validations) <= MaxInFlight
  /\ published' = hs.published
  /\ validations' = hs.validations
  /\ renderCache' = hs.renderCache

SetTimers(ts) ==
  /\ validationTimers' = ts.timers
  /\ timeouts' = ts.pending

InitExtension ==
  /\ text = <<>>
  /\ pc = "host"
  /\ sections = <<>>
  /\ idx = 0
  /\ sectionStack = <<>>
  /\ errors = <<>>
  /\ config \in HostConfigs
  /\ output = <<>>
  /\ diagnostics = <<>>
  /\ returned = [t \in HostTexts |-> validatorsReturn(mustacheValidate(t), renderTemplate(t))]
  /\ EventLoopIdle
  /\ ExtensionHostIdle

(* A context file is configured and real-time validation is on. *)
InitHost ==
  /\ InitExtension
  /\ config.contextFile # ""
  /\ config.enableRealTimeValidation
  /\ config.debounceTime = 300

(* documentOpenListener *)
OpenDocument(uri) ==
  /\ ~documents[uri].open
  /\ Versions(documents) < MaxVersion
  /\ \E t \in HostTexts :
       documents' = [documents EXCEPT ![uri] =
                       [open |-> TRUE, version |-> @.version + 1, text |-> t]]
  /\ SetTimers(validateDocumentDelayed(Timers, uri, OpenDelay, clock, "open"))
  /\ UNCHANGED <<validatorIdle, config, clock, renderCache, validations, published,
                 activeTextEditor>>

(* activeEditorChangeListener *)
ChangeActiveEditor(uri) ==
  /\ documents[uri].open
  /\ activeTextEditor # uri
  /\ activeTextEditor' = uri
  /\ SetTimers(validateDocumentDelayed(Timers, uri, ActiveEditorDelay, clock, "editor"))
  /\ UNCHANGED <<validatorIdle, config, clock, renderCache, documents, validations,
                 published>>

(* documentChangeListener: handleDocumentChange *)
ChangeDocument(uri) ==
  /\ documents[uri].open
  /\ Versions(documents) < MaxVersion
  /\ \E t \in HostTexts \ {documents[uri].text} :
       documents' = [documents EXCEPT ![uri] =
                       [open |-> TRUE, version |-> @.version + 1, text |-> t]]
  /\ IF config.enableRealTimeValidation
     THEN SetTimers(validateDocumentDelayed(Timers, uri,
                      Max(config.debounceTime, MinDebounceTime), clock, "change"))
     ELSE UNCHANGED <<validationTimers, timeouts>>
  /\ UNCHANGED <<validatorIdle, config, clock, renderCache, validations, published,
                 activeTextEditor>>

(* documentSaveListener *)
SaveDocument(uri, located) ==
  /\ documents[uri].open
  /\ SetHost(validateDocument(Host, uri, documents[uri], <<>>, config, clock, located))
  /\ UNCHANGED <<validatorIdle, config, clock, documents, validationTimers, timeouts,
                 activeTextEditor>>

(* documentCloseListener; the editor of the document is gone with it *)
CloseDocument(uri) ==
  /\ documents[uri].open
  /\ documents' = [documents EXCEPT ![uri].open = FALSE]
  /\ published' = [published EXCEPT ![uri] = <<>>]
  /\ SetTimers(clearValidationTimer(Timers, uri))
  /\ activeTextEditor' = IF activeTextEditor = uri THEN "" ELSE activeTextEditor
  /\ UNCHANGED <<validatorIdle, config, clock, renderCache, validations>>

(* the callback of the setTimeout of validateDocumentDelayed *)
TimerCallback(t, located) ==
  /\ t \in timeouts
  /\ t.due <= clock
  /\ SetHost(validateDocument(Host, t.uri, documents[t.uri], <<>>, config, clock, located))
  /\ timeouts' = timeouts \ {t}
  /\ validationTimers' = [validationTimers EXCEPT ![t.uri] = <<>>]
  /\ UNCHANGED <<validatorIdle, config, clock, documents, activeTextEditor>>

(* time passes, in steps of the shortest delay, while no callback is due *)
Tick ==
  /\ clock < MaxTicks * MinDebounceTime
  /\ \A t \in timeouts : t.due > clock
  /\ clock' = clock + MinDebounceTime
  /\ UNCHANGED <<validatorIdle, config, extensionHost>>

(* the context file has been read: validateDocument goes on to its end,    *)
(* and the validateOpenDocuments that awaited it goes on with its loop     *)
FinishValidation(v, located) ==
  LET rendered == Rendered[v.text]
      done == [Host EXCEPT
                 !.validations = @ \ {v},
                 !.renderCache = cacheRendered(@, v.text, rendered, config.contextFile, clock),
                 !.published = updateDiagnostics(@, v.uri, v.version,
                                 v.errors \o RenderedErrors[v.text][located], config)]
  IN /\ v \in validations
     /\ SetHost(validateEach(done, SelectSeq(v.rest, LAMBDA uri : documents[uri].open),
                             documents, config, clock, located))
     /\ UNCHANGED <<validatorIdle, config, clock, documents, validationTimers, timeouts,
                    activeTextEditor>>

(* DiagnosticsProvider.refreshAllDiagnostics: the validate command for the *)
(* active document when the collection has an entry for it                 *)
refreshAllDiagnostics(hs, entries, active, docs, cfg, now, located) ==
  IF active # "" /\ entries[active] # <<>>
  THEN validateDocument(hs, active, docs[active], <<>>, cfg, now, located)
  ELSE hs

(* onDidChangeConfiguration: the listener of the DiagnosticsProvider, then *)
(* handleConfigurationChange.  The command started by the first listener   *)
(* awaits before it publishes, so clearAllDiagnostics runs before it.      *)
ConfigurationChange(enable, located) ==
  LET cfg == [config EXCEPT !.enableRealTimeValidation = enable]
      cleared == [Host EXCEPT !.published = [uri \in Uris |-> <<>>]]
      refreshed == refreshAllDiagnostics(IF enable THEN Host ELSE cleared, published,
                                         activeTextEditor, documents, cfg, clock, located)
  IN /\ config' = cfg
     /\ SetHost(IF enable
                THEN validateEach([refreshed EXCEPT !.awaiting = FALSE], OpenUris(documents),
                                  documents, cfg, clock, located)
                ELSE refreshed)
     /\ UNCHANGED <<validatorIdle, clock, documents, validationTimers, timeouts,
                    activeTextEditor>>

EnableRealTimeValidation == \E located \in BOOLEAN : ConfigurationChange(TRUE, located)

DisableRealTimeValidation == \E located \in BOOLEAN : ConfigurationChange(FALSE, located)

NextHost ==
  \/ \E uri \in Uris : OpenDocument(uri)
  \/ \E uri \in Uris : ChangeActiveEditor(uri)
  \/ \E uri \in Uris : ChangeDocument(uri)
  \/ \E uri \in Uris, located \in BOOLEAN : SaveDocument(uri, located)
  \/ \E uri \in Uris : CloseDocument(uri)
  \/ \E t \in timeouts, located \in BOOLEAN : TimerCallback(t, located)
  \/ Tick
  \/ \E v \in validations, located \in BOOLEAN : FinishValidation(v, located)
  \/ EnableRealTimeValidation
  \/ DisableRealTimeValidation

SpecHost == InitHost /\ [][NextHost]_vars

(* Debouncing on its own: no context file is configured, so every call of  *)
(* validateDocument returns within the turn of the event loop it starts in *)
InitDebounce ==
  /\ InitExtension
  /\ config.contextFile = ""

NextDebounce ==
  \/ \E uri \in Uris : OpenDocument(uri)
  \/ \E uri \in Uris : ChangeActiveEditor(uri)
  \/ \E uri \in Uris : ChangeDocument(uri)
  \/ \E uri \in Uris : CloseDocument(uri)
  \/ \E t \in timeouts, located \in BOOLEAN : TimerCallback(t, located)
  \/ Tick

SpecDebounce == InitDebounce /\ [][NextDebounce]_vars

(* the diagnostics shown for a document *)
Shown(uri) == IF published[uri] = <<>> THEN <<>> ELSE published[uri][1].diagnostics

(***************************************************************************)
(* C28: once a document is closed its diagnostics are cleared and stay     *)
(* cleared: while it is closed no diagnostics are published for it, also   *)
(* not by a validation that was scheduled or in flight before the close.   *)
(***************************************************************************)
C28_ClosedStaysCleared ==
  \A uri \in Uris : ~documents[uri].open => Shown(uri) = <<>>

(* the state after a step is that of exactly one new call of               *)
(* validateDocument on the current text of the document: the call has      *)
(* published for this version, or it is the one call added to those in     *)
(* flight                                                                  *)
OneValidationStarted(uri) ==
  \/ /\ validations' = validations
     /\ published'[uri] # <<>>
     /\ published'[uri][1].version = documents[uri].version
  \/ /\ published' = published
     /\ \E v \in validations' \ validations :
          /\ validations' = validations \cup {v}
          /\ v.uri = uri
          /\ v.version = documents[uri].version
          /\ v.text = documents[uri].text

TimersOf(pending, uri) == {t \in pending : t.uri = uri}

(***************************************************************************)
(* C26: debouncing.  validationTimers holds at most one pending timer per  *)
(* document URI and no timer is pending that is not in the map; with       *)
(* real-time validation on, a change to a document leaves exactly one      *)
(* pending timer for it, the new one, due max(debounceTime, 100) ms after  *)
(* the change, and no timer of another document is touched; the timer of   *)
(* the last change of a burst fires max(debounceTime, 100) ms after that   *)
(* change and starts exactly one validation of the document.               *)
(***************************************************************************)
C26_Debounce ==
  /\ [](/\ \A uri \in Uris : Cardinality(TimersOf(timeouts, uri)) <= 1
        /\ \A t \in timeouts : validationTimers[t.uri] = <<t>>
        /\ \A uri \in Uris :
             validationTimers[uri] # <<>> => validationTimers[uri][1] \in timeouts)
  /\ [][\A uri \in Uris :
          (ChangeDocument(uri) /\ config.enableRealTimeValidation) =>
            /\ TimersOf(timeouts', uri) =
                 {[uri |-> uri, due |-> clock + Max(config.debounceTime, 100),

                   set |-> clock, by |-> "change"]}
            /\ validationTimers'[uri] = <<CHOOSE t \in timeouts' : t.uri = uri>>
            /\ \A other \in Uris \ {uri} :
                 TimersOf(timeouts', other) = TimersOf(timeouts, other)]_vars
  /\ [][\A t \in timeouts :
          (t.by = "change" /\ \E located \in BOOLEAN : TimerCallback(t, located)) =>
            /\ clock = t.set + Max(config.debounceTime, 100)
            /\ TimersOf(timeouts', t.uri) = {}
            /\ validationTimers'[t.uri] = <<>>
            /\ OneValidationStarted(t.uri)]_vars

(* a second change has restarted the timer, which is about to fire *)
C26_Witness ==
  \E t \in timeouts :
    /\ t.by = "change"
    /\ documents[t.uri].version >= 3
    /\ t.set > 0
    /\ clock = t.due
    /\ config.enableRealTimeValidation

(***************************************************************************)
(* C27: when validations of a document overlap, an older validation that   *)
(* finishes late never overwrites the result of a newer one: the version   *)
(* of the text the published diagnostics were computed from never goes     *)
(* back, so what is left published when all calls have returned is the     *)
(* result for the most recent text that was validated.                     *)
(***************************************************************************)
C27_NewestResultStays ==
  [][\A uri \in Uris :
       (published[uri] # <<>> /\ published'[uri] # <<>>) =>
         published'[uri][1].version >= published[uri][1].version]_vars

(***************************************************************************)
(* C29: the handling of a configuration change to enableRealTimeValidation *)
(* = false ends with no diagnostics published for any document, and with   *)
(* no validation started by it that would publish some later.              *)
(***************************************************************************)
C29_DisabledLeavesNoDiagnostics ==
  [][DisableRealTimeValidation =>
       /\ \A uri \in Uris : Shown(uri)' = <<>>
       /\ validations' \subseteq validations]_vars

(* the openers groupSectionPairs leaves without a closer *)
UnpairedOpeners(pairs) ==
  {pairs[k].opening : k \in {k \in 1..Len(pairs) : pairs[k].closing = NoSection}}

(* the opener groupSectionPairs pairs with a closer, as a set *)
PairedWith(pairs, closer) ==
  {pairs[k].opening : k \in {k \in 1..Len(pairs) : pairs[k].closing = closer}}

(***************************************************************************)
(* C30: the pairs of groupSectionPairs are the pairs formed by the         *)
(* matching pass.  Each closer is paired with the frame that               *)
(* validateSectionMatching pops for it (with none when the stack is        *)
(* empty), and the openers left unpaired are exactly the openers left on   *)
(* the stack, which are reported as unclosed.                              *)
(***************************************************************************)
C30_PairsAreMatchedFrames ==
  /\ [][MatchClosing =>
          PairedWith(groupSectionPairs(sections), sections[idx]) =
            IF sectionStack = <<>> THEN {}
            ELSE {sectionStack[Len(sectionStack)].section}]_vars
  /\ [](pc = "matched" =>
          UnpairedOpeners(groupSectionPairs(sections)) =
            {sectionStack[k].section : k \in 1..Len(sectionStack)})

====
